---- MODULE Spec2Model ----
(***************************************************************************)
(* State-machine model of quic-lab: the rotating writer (core/rotate.rs),  *)
(* the qlog multiplexer and its per-connection adapter (core/qlog.rs),     *)
(* the rate limiter (core/throttle.rs), the summary recorder               *)
(* (core/recorder.rs), the QUIC client driver (core/transport/quic/quic.rs)*)
(* and the H3 probe orchestrator (probes/h3.rs, runner/main.rs).           *)
(*                                                                         *)
(* Each subsystem has its own specification; a specification parks the     *)
(* variables of the other subsystems at a fixed value.                     *)
(***************************************************************************)
EXTENDS Integers, Sequences, FiniteSets, TLC

VARIABLES
    \* ---- rotating writer (rotate.rs) ----
    rw,        \* RotatingWriter fields and the directory it writes to
    rstream,   \* every byte handed to a successful write, in call order
    rlast,     \* the last write call: its buffer, result and the files before it
    rcalls,    \* number of write calls made so far
    \* ---- qlog multiplexer and per-connection adapters (qlog.rs) ----
    mux,       \* QlogMux: Inner {bufw, since_flush, last_t} over its directory
    adapters,  \* PerConnSqlog per connection: buf, gid, last_t
    qclock,    \* SystemTime::now() in time units since the mux's epoch
    qseen,     \* what append_record has been handed so far (observations)
    qops,      \* number of calls made on the qlog subsystem so far
    \* ---- probe orchestrator, client driver, recorder ----
    hst,       \* per host: where its worker is in probe() and what it holds
    recorder,  \* Recorder: enabled (inner is Some) and the lines written per key
    processed, \* main.rs `processed` counter
    err_cnt,   \* main.rs `err_cnt` counter
    delay_ms,  \* DelayConfig.inter_attempt_delay_ms
    pool,      \* the par_iter call in main: running, finished, or unwound by a panic
    \* ---- rate limiter (throttle.rs) ----
    rl,        \* RateLimit: inner is None or the limiter's quota and state
    tnow,      \* the clock, in ticks
    tpassed,   \* per tick, how many until_ready calls returned in it
    \* ---- one attempt under a driver loop (transport/quic.rs, quic/quic.rs) ----
    drv,       \* the driver's per-attempt state, the clock and how it returned
    \* ---- keylog adapter and sink (keylog.rs) ----
    kl,        \* PerConnKeylog buffer, the bytes written to it, the sink's lines
    \* ---- session ticket file (quic/quic.rs) ----
    sess,      \* <host>.session: its bytes, the save in progress, what readers saw
    \* ---- one call of resolve_targets (resolver.rs) ----
    rsv,       \* the lookup's address list, the family asked for, what was returned
    \* ---- the HTTP/3 application of one connection (probes/h3.rs) ----
    h3         \* H3App fields, the events pending, the calls made on the connection

rotVars == <<rw, rstream, rlast, rcalls>>
qlogVars == <<mux, adapters, qclock, qseen, qops>>
probeVars == <<hst, recorder, processed, err_cnt, delay_ms, pool>>
thrVars == <<rl, tnow, tpassed>>
drvVars == <<drv>>
klVars == <<kl>>
sessVars == <<sess>>
resVars == <<rsv>>
h3Vars == <<h3>>

\* what the actions of one subsystem leave alone
notRot == <<qlogVars, probeVars, thrVars, drvVars, klVars, sessVars, resVars, h3Vars>>
notQlog == <<rotVars, probeVars, thrVars, drvVars, klVars, sessVars, resVars, h3Vars>>
notProbe == <<rotVars, qlogVars, thrVars, drvVars, klVars, sessVars, resVars, h3Vars>>
notThr == <<rotVars, qlogVars, probeVars, drvVars, klVars, sessVars, resVars, h3Vars>>
notDrv == <<rotVars, qlogVars, probeVars, thrVars, klVars, sessVars, resVars, h3Vars>>
notKl == <<rotVars, qlogVars, probeVars, thrVars, drvVars, sessVars, resVars, h3Vars>>
notSess == <<rotVars, qlogVars, probeVars, thrVars, drvVars, klVars, resVars, h3Vars>>
notRes == <<rotVars, qlogVars, probeVars, thrVars, drvVars, klVars, sessVars, h3Vars>>
notH3 == <<rotVars, qlogVars, probeVars, thrVars, drvVars, klVars, sessVars, resVars>>

vars == <<rw, rstream, rlast, rcalls, mux, adapters, qclock, qseen, qops,
          hst, recorder, processed, err_cnt, delay_ms, pool, rl, tnow, tpassed,
          drv, kl, sess, rsv, h3>>

-----------------------------------------------------------------------------
(* Bounds of the model *)

MaxBytes == 4      \* max_bytes of the writers of the model, in bytes
HdrLen == 2        \* length of the preamble a new-file hook writes
MaxBufLen == 5     \* longest buffer passed to one write call
MaxCalls == 4      \* write calls per behaviour
QlogMaxBytes == 7  \* MAX_SQLOG_BYTES scaled to the model's frames (3 bytes each)
BufCap == 4        \* capacity of the mux's BufWriter, scaled
FlushEvery == 3    \* FLUSH_EVERY scaled: flush after this many records
MaxTime == 2       \* largest time value the library or the clock produces
MaxQOps == 4       \* calls on the qlog subsystem per behaviour
NHosts == 2        \* hosts in the domain list
NWorkers == 2      \* threads of the worker pool
TicksPerSec == 2   \* clock ticks in one second
MaxTick == 3       \* last tick of a behaviour
MaxPasses == 4     \* until_ready calls per behaviour
MaxRps == 1        \* largest configured rps
MaxBurst == 1      \* largest configured burst
HsDeadline == 1    \* handshake_timeout_ms, in ticks after t_start
OverallDeadline == 2   \* overall_timeout_ms, in ticks after t_start
MaxNow == 3        \* the clock stops here

-----------------------------------------------------------------------------
(* Generic helpers *)

SeqMax(S) == IF S = {} THEN 0 ELSE CHOOSE m \in S : \A x \in S : x <= m

RECURSIVE Flatten(_)
Flatten(ss) == IF ss = <<>> THEN <<>> ELSE Head(ss) \o Flatten(Tail(ss))

Suffix(s, n) == SubSeq(s, Len(s) - n + 1, Len(s))

-----------------------------------------------------------------------------
(* The directory a writer works in.  A name is a number: Base is <base>,   *)
(* k > 0 is <base>.<k>.  dir maps the names that exist to inodes; data     *)
(* holds every inode's bytes; a handle is an inode, so it follows a rename.*)

Base == 0

EmptyFs == [dir |-> <<>>, data |-> <<>>]

FileBytes(fs, name) == fs.data[fs.dir[name]]

\* OpenOptions::new().create(true).append(true).open(path)
OpenAppend(fs, name) ==
    IF name \in DOMAIN fs.dir
    THEN [fs |-> fs, ino |-> fs.dir[name]]
    ELSE [fs |-> [dir |-> (name :> (Len(fs.data) + 1)) @@ fs.dir,
                  data |-> Append(fs.data, <<>>)],
          ino |-> Len(fs.data) + 1]

\* File::write_all on an append handle
AppendBytes(fs, ino, bytes) == [fs EXCEPT !.data[ino] = @ \o bytes]

\* fs::rename(from, to): `to` is replaced
RenameFile(fs, from, to) ==
    [fs EXCEPT !.dir = [n \in (DOMAIN fs.dir \ {from}) \cup {to} |->
                            IF n = to THEN fs.dir[from] ELSE fs.dir[n]]]

\* fs::remove_file(name)
RemoveFile(fs, name) ==
    [fs EXCEPT !.dir = [n \in DOMAIN fs.dir \ {name} |-> fs.dir[n]]]

-----------------------------------------------------------------------------
(* RotatingWriter (rotate.rs).  A writer value holds the struct's fields   *)
(* (max_bytes, file, size, next_index, hook) and the directory `fs`.       *)
(* hook is the preamble on_new_file writes (<<>> for NoHook).  `fault`     *)
(* names the filesystem call that fails in this call ("none": no error).   *)

\* An open that starts numbering at 1 whatever the directory holds.
Mut_RotatingWriter_new_index_one(fs, max_bytes, hook) ==
    LET o == OpenAppend(fs, Base)
        size0 == Len(o.fs.data[o.ino])
        fs1 == IF size0 = 0 THEN AppendBytes(o.fs, o.ino, hook) ELSE o.fs
    IN [fs |-> fs1, max_bytes |-> max_bytes, file |-> o.ino,
        size |-> Len(fs1.data[o.ino]), next_index |-> 1,
        hook |-> hook]

\* An open that runs the hook whatever the file holds.
Mut_RotatingWriter_new_hook_always(fs, max_bytes, hook) ==
    LET max_idx == SeqMax({k \in DOMAIN fs.dir : k > 0})
        o == OpenAppend(fs, Base)
        fs1 == AppendBytes(o.fs, o.ino, hook)
    IN [fs |-> fs1, max_bytes |-> max_bytes, file |-> o.ino,
        size |-> Len(fs1.data[o.ino]), next_index |-> max_idx + 1,
        hook |-> hook]

RotatingWriter_new(fs, max_bytes, hook) ==
    LET max_idx == SeqMax({k \in DOMAIN fs.dir : k > 0})
        o == OpenAppend(fs, Base)
        size0 == Len(o.fs.data[o.ino])
        fs1 == IF size0 = 0 THEN AppendBytes(o.fs, o.ino, hook) ELSE o.fs
    IN [fs |-> fs1, max_bytes |-> max_bytes, file |-> o.ino,
        size |-> Len(fs1.data[o.ino]), next_index |-> max_idx + 1,
        hook |-> hook]

\* The filesystem calls of one rotation, in the order they are made, are
\* kept in `calls`: <<"remove", name>>, <<"rename", inode, name>>,
\* <<"open", inode>>, <<"hook", inode>>, and <<"close", inode>> where a
\* File value is dropped.
NoRotation(w) == [w |-> w, ok |-> TRUE, calls |-> <<>>]

\* A rotation that reuses the suffix it used before (next_index not advanced).
Mut_rotate_same_index(w, fault) ==
    LET numbered == 1
        fsA == IF numbered \in DOMAIN w.fs.dir THEN RemoveFile(w.fs, numbered) ELSE w.fs
        fsB == RenameFile(fsA, Base, numbered)
        o == OpenAppend(fsB, Base)
        fsC == AppendBytes(o.fs, o.ino, w.hook)
    IN [w |-> [w EXCEPT !.fs = fsC, !.size = Len(fsC.data[o.ino]), !.file = o.ino],
        ok |-> TRUE, calls |-> <<>>]

\* A rotation that shifts every rotated file up by one suffix and moves
\* the active file to <base>.1 (the newest rotated file has the lowest suffix).
Mut_rotate_shift(w, fault) ==
    LET fsB == [w.fs EXCEPT !.dir = [n \in {k + 1 : k \in DOMAIN w.fs.dir} |->
                                        w.fs.dir[n - 1]]]
        o == OpenAppend(fsB, Base)
        fsC == AppendBytes(o.fs, o.ino, w.hook)
    IN [w |-> [w EXCEPT !.fs = fsC, !.size = Len(fsC.data[o.ino]), !.file = o.ino,
                        !.next_index = @ + 1],
        ok |-> TRUE, calls |-> <<>>]

RotateDone(w, wB, o, cC) ==
    [w |-> [wB EXCEPT !.fs = AppendBytes(o.fs, o.ino, w.hook),
                      !.size = Len(o.fs.data[o.ino]) + Len(w.hook),
                      !.file = o.ino],
     ok |-> TRUE,
     calls |-> (IF w.hook = <<>> THEN cC ELSE Append(cC, <<"hook", o.ino>>))
                  \o << <<"close", w.file>> >>]

\* the hook's on_new_file on the fresh file o, then `self.file = fresh`
RotateHook(w, wB, o, cC, fault) ==
    IF fault = "hook"
    THEN [w |-> [wB EXCEPT !.fs = o.fs], ok |-> FALSE,
          calls |-> Append(cC, <<"close", o.ino>>)]
    ELSE RotateDone(w, wB, o, cC)

\* the open of the fresh file at the base path
RotateOpen(w, wB, cB, fault) ==
    IF fault = "open"
    THEN [w |-> wB, ok |-> FALSE, calls |-> cB]
    ELSE RotateHook(w, wB, OpenAppend(wB.fs, Base),
                    Append(cB, <<"open", OpenAppend(wB.fs, Base).ino>>), fault)

\* `if cur.exists()`: the rename to <base>.<next_index> and the increment
RotateRename(w, fsA, cA, fault) ==
    IF Base \notin DOMAIN w.fs.dir
    THEN RotateOpen(w, [w EXCEPT !.fs = fsA], cA, fault)
    ELSE IF fault = "rename"
    THEN [w |-> [w EXCEPT !.fs = fsA], ok |-> FALSE, calls |-> cA]
    ELSE RotateOpen(w,
                    [w EXCEPT !.fs = RenameFile(fsA, Base, w.next_index),
                              !.next_index = @ + 1],
                    Append(cA, <<"rename", w.fs.dir[Base], w.next_index>>), fault)

\* TRUE when rotate removes a file that already has the next numbered name
RotateStale(w) == Base \in DOMAIN w.fs.dir /\ w.next_index \in DOMAIN w.fs.dir

\* `let _ = &self.file;` drops a reference, not the File: the handle stays
\* open until `self.file = fresh` replaces it, after the rename, the open
\* and the hook.  A `?` that returns early leaves self.file as it was.
RotatingWriter_rotate(w, fault) ==
    IF RotateStale(w)
    THEN RotateRename(w, RemoveFile(w.fs, w.next_index),
                      << <<"remove", w.next_index>> >>, fault)
    ELSE RotateRename(w, w.fs, <<>>, fault)

\* A write that fills the active file up to max_bytes and puts the rest of
\* the buffer into the fresh file.
Mut_write_split(w, buf, fault) ==
    IF buf = <<>> THEN [w |-> w, ok |-> TRUE, ret |-> 0, calls |-> <<>>]
    ELSE IF w.size + Len(buf) > w.max_bytes /\ w.size < w.max_bytes
    THEN LET fit == w.max_bytes - w.size
             w1 == [w EXCEPT !.fs = AppendBytes(@, w.file, SubSeq(buf, 1, fit))]
             r == RotatingWriter_rotate(w1, fault)
         IN [w |-> [r.w EXCEPT !.fs = AppendBytes(@, r.w.file, SubSeq(buf, fit + 1, Len(buf))),
                               !.size = @ + Len(buf) - fit],
             ok |-> TRUE, ret |-> Len(buf), calls |-> r.calls]
    ELSE LET r == IF w.size + Len(buf) > w.max_bytes
                  THEN RotatingWriter_rotate(w, fault) ELSE NoRotation(w)
         IN [w |-> [r.w EXCEPT !.fs = AppendBytes(@, r.w.file, buf), !.size = @ + Len(buf)],
             ok |-> TRUE, ret |-> Len(buf), calls |-> r.calls]

\* A write that never rotates.
Mut_write_no_rotate(w, buf, fault) ==
    IF buf = <<>> THEN [w |-> w, ok |-> TRUE, ret |-> 0, calls |-> <<>>]
    ELSE [w |-> [w EXCEPT !.fs = AppendBytes(@, w.file, buf), !.size = @ + Len(buf)],
          ok |-> TRUE, ret |-> Len(buf), calls |-> <<>>]

\* `self.file.write_all(buf)?` failing after a part of buf went out:
\* write_all calls write until all is written or a call fails, so the bytes
\* of the calls before the failing one are in the file; `self.size +=` is
\* not reached.  Here all of buf but its last byte went out.
RotatingWriter_write_short(r, buf) ==
    [w |-> [r.w EXCEPT !.fs = AppendBytes(@, r.w.file, SubSeq(buf, 1, Len(buf) - 1))],
     ok |-> FALSE, ret |-> 0, calls |-> r.calls]

RotatingWriter_write(w, buf, fault) ==
    IF buf = <<>> THEN [w |-> w, ok |-> TRUE, ret |-> 0, calls |-> <<>>]
    ELSE LET r == IF w.size + Len(buf) > w.max_bytes
                  THEN RotatingWriter_rotate(w, fault)
                  ELSE NoRotation(w)
         IN IF ~r.ok THEN [w |-> r.w, ok |-> FALSE, ret |-> 0, calls |-> r.calls]
            ELSE IF fault = "write" THEN [w |-> r.w, ok |-> FALSE, ret |-> 0, calls |-> r.calls]
            ELSE IF fault = "short" THEN RotatingWriter_write_short(r, buf)
            ELSE [w |-> [r.w EXCEPT !.fs = AppendBytes(@, r.w.file, buf),
                                    !.size = @ + Len(buf)],
                  ok |-> TRUE, ret |-> Len(buf), calls |-> r.calls]

-----------------------------------------------------------------------------
(* Bytes of the qlog stream.  A JSON text is one unit of the stream: what  *)
(* the code reads of it is whether it parses, whether it holds a header    *)
(* key ("qlog_format" or "file_schema"), its group_id, time and name.      *)

NoGid == 0
NoTime == -1

RS == [k |-> "RS", hdr |-> FALSE, g |-> NoGid, t |-> NoTime, n |-> <<>>, title |-> ""]
LF == [k |-> "LF", hdr |-> FALSE, g |-> NoGid, t |-> NoTime, n |-> <<>>, title |-> ""]
\* bytes that are no JSON text; hdr: they contain the text of a header key
Junk(hdr) == [k |-> "junk", hdr |-> hdr, g |-> NoGid, t |-> NoTime, n |-> <<>>, title |-> ""]
\* a JSON-SEQ file header object (no "name", no "time")
HeaderJson(title) ==
    [k |-> "json", hdr |-> TRUE, g |-> NoGid, t |-> NoTime, n |-> <<>>, title |-> title]
\* an event object {"time": t, "name": n, "group_id": g, ...}
EventJson(g, t, n) == [k |-> "json", hdr |-> FALSE, g |-> g, t |-> t, n |-> n, title |-> ""]

Frame(json) == <<RS, json, LF>>

\* QlogHeaderHook::on_new_file: RS, the header object, LF
QlogHeaderHook_on_new_file == Frame(HeaderJson("quic-lab session"))

ScanLimit == 65536

\* A header check that never recognises a header.
Mut_is_header_frame_never(frame) == FALSE

is_header_frame(frame) ==
    /\ frame # <<>>
    /\ frame[1] = RS
    /\ \E i \in 1..Len(frame) : i <= ScanLimit /\ frame[i].hdr

\* A name is a string, kept as the sequence of its pieces: "quic:path_x" is
\* <<"quic", ":", "path_", "x">>.  No piece is part of another piece.
StartsWith(str, prefix) ==
    Len(str) >= Len(prefix) /\ SubSeq(str, 1, Len(prefix)) = prefix
EndsWith(str, suffix) ==
    Len(str) >= Len(suffix) /\ SubSeq(str, Len(str) - Len(suffix) + 1, Len(str)) = suffix
Contains(str, part) ==
    \E i \in 1..(Len(str) - Len(part) + 1) : SubSeq(str, i, i + Len(part) - 1) = part

\* A minimiser that tests the recovery namespace before the error names.
Mut_qvis_minimize_in_place_recovery_first(name) ==
    IF StartsWith(name, <<"meta", ":">>) \/ StartsWith(name, <<"loglevel", ":">>) THEN TRUE
    ELSE IF EndsWith(name, <<":", "parameters_set">>) THEN TRUE
    ELSE IF StartsWith(name, <<"recovery", ":">>)
    THEN name = <<"recovery", ":", "packet_lost">>
    ELSE IF \/ Contains(name, <<"error">>) \/ Contains(name, <<"closed">>)
            \/ StartsWith(name, <<"quic", ":", "path_">>)
            \/ Contains(name, <<"connection_lost">>)
    THEN TRUE
    ELSE IF name = <<"quic", ":", "stream_data_moved">> THEN FALSE
    ELSE TRUE

\* qvis_minimize_in_place with MINIMIZE_QLOG = true: TRUE when the event is
\* kept.  An event without a name has the name "".
qvis_minimize_in_place(name) ==
    IF StartsWith(name, <<"meta", ":">>) \/ StartsWith(name, <<"loglevel", ":">>) THEN TRUE
    ELSE IF EndsWith(name, <<":", "parameters_set">>) THEN TRUE
    ELSE IF \/ Contains(name, <<"error">>) \/ Contains(name, <<"closed">>)
            \/ StartsWith(name, <<"quic", ":", "path_">>)
            \/ Contains(name, <<"connection_lost">>)
    THEN TRUE
    ELSE IF StartsWith(name, <<"recovery", ":">>)
    THEN name = <<"recovery", ":", "packet_lost">>
    ELSE IF name = <<"quic", ":", "stream_data_moved">> THEN FALSE
    ELSE TRUE

-----------------------------------------------------------------------------
(* std::io::BufWriter over the rotating writer (qlog.rs: Inner.bufw).      *)

BufWriter_flush_buf(b) ==
    IF b.buf = <<>> THEN b
    ELSE [buf |-> <<>>, inner |-> RotatingWriter_write(b.inner, b.buf, "none").w]

BufWriter_write_all(b, data) ==
    IF Len(data) < BufCap - Len(b.buf)
    THEN [b EXCEPT !.buf = @ \o data]
    ELSE LET b1 == IF Len(data) > BufCap - Len(b.buf) THEN BufWriter_flush_buf(b) ELSE b
         IN IF Len(data) >= BufCap
            THEN [b1 EXCEPT !.inner = RotatingWriter_write(@, data, "none").w]
            ELSE [b1 EXCEPT !.buf = @ \o data]

-----------------------------------------------------------------------------
(* QlogMux (qlog.rs) *)

Conns == {1, 2}          \* connections; a connection's trace_id is its number
Times == 0..MaxTime

QlogMux_new(fs) ==
    [bufw |-> [buf |-> <<>>,
               inner |-> RotatingWriter_new(fs, QlogMaxBytes, QlogHeaderHook_on_new_file)],
     since_flush |-> 0,
     last_t |-> [g \in Conns |-> NoTime]]

\* the tail of append_record and append_event: count the record, flush every
\* FLUSH_EVERY records
CountAndFlush(m) ==
    IF m.since_flush + 1 >= FlushEvery
    THEN [m EXCEPT !.bufw = BufWriter_flush_buf(@), !.since_flush = 0]
    ELSE [m EXCEPT !.since_flush = @ + 1]

\* An append_record that stamps nothing and checks nothing (no header test).
Mut_append_record_no_check(m, record) ==
    CountAndFlush([m EXCEPT !.bufw = BufWriter_write_all(@, record)])

QlogMux_append_record(m, record) ==
    IF is_header_frame(record) THEN m
    ELSE CountAndFlush([m EXCEPT !.bufw = BufWriter_write_all(@, record)])

\* append_event at clock reading now: three writes (RS, the object, LF)
QlogMux_append_event(m, group_id, name, now) ==
    LET prev == m.last_t[group_id]
        t_ms == IF prev # NoTime /\ now <= prev THEN prev + 1 ELSE now
        ev == EventJson(group_id, t_ms, name)
        b1 == BufWriter_write_all(m.bufw, <<RS>>)
        b2 == BufWriter_write_all(b1, <<ev>>)
        b3 == BufWriter_write_all(b2, <<LF>>)
    IN CountAndFlush([m EXCEPT !.last_t[group_id] = t_ms, !.bufw = b3])

-----------------------------------------------------------------------------
(* PerConnSqlog (qlog.rs): the per-connection adapter.  The operators      *)
(* return the adapter and the mux after the call, and in `sent` the        *)
(* records the call handed to append_record.                               *)

PerConnSqlog_new(group_id) == [buf |-> <<>>, gid |-> group_id, last_t |-> NoTime]

FirstIndex(s, b) ==
    IF \E i \in 1..Len(s) : s[i] = b
    THEN CHOOSE i \in 1..Len(s) : s[i] = b /\ \A j \in 1..(i - 1) : s[j] # b
    ELSE 0

\* A forward_frame that leaves the time of a frame as the library wrote it.
Mut_forward_frame_no_time_fix(a, m, rec) ==
    IF /\ Len(rec) = 3 /\ rec[1] = RS /\ rec[Len(rec)] = LF /\ rec[2].k = "json"
    THEN LET v == rec[2]
             v1 == IF v.g = NoGid THEN [v EXCEPT !.g = a.gid] ELSE v
             a1 == IF v.t # NoTime THEN [a EXCEPT !.last_t = v.t] ELSE a
         IN IF ~qvis_minimize_in_place(v1.n)
            THEN [a |-> a1, m |-> m, sent |-> <<>>]
            ELSE [a |-> a1, m |-> QlogMux_append_record(m, Frame(v1)),
                  sent |-> <<Frame(v1)>>]
    ELSE [a |-> a, m |-> QlogMux_append_record(m, rec), sent |-> <<rec>>]

\* Times are counted in units of 1e-6 ms: prev + 1e-6 is prev + 1.
PerConnSqlog_forward_frame(a, m, rec) ==
    IF /\ Len(rec) >= 3 /\ rec[1] = RS /\ rec[Len(rec)] = LF
       /\ Len(rec) = 3 /\ rec[2].k = "json"          \* the payload parses
    THEN LET v == rec[2]
             v1 == IF v.g = NoGid THEN [v EXCEPT !.g = a.gid] ELSE v
             t_adj == IF a.last_t # NoTime /\ v.t <= a.last_t THEN a.last_t + 1 ELSE v.t
             v2 == IF v.t # NoTime THEN [v1 EXCEPT !.t = t_adj] ELSE v1
             a1 == IF v.t # NoTime THEN [a EXCEPT !.last_t = t_adj] ELSE a
         IN IF ~qvis_minimize_in_place(v2.n)
            THEN [a |-> a1, m |-> m, sent |-> <<>>]
            ELSE [a |-> a1, m |-> QlogMux_append_record(m, Frame(v2)),
                  sent |-> <<Frame(v2)>>]
    ELSE [a |-> a, m |-> QlogMux_append_record(m, rec), sent |-> <<rec>>]

\* the loop of PerConnSqlog::write over the buffered bytes
RECURSIVE SqlogDrain(_, _, _)
SqlogDrain(a, m, sent) ==
    LET start == FirstIndex(a.buf, RS)
    IN IF start = 0 THEN [a |-> a, m |-> m, sent |-> sent]
       ELSE LET buf1 == SubSeq(a.buf, start, Len(a.buf))
                end_rel == FirstIndex(Tail(buf1), LF)
            IN IF end_rel = 0 THEN [a |-> [a EXCEPT !.buf = buf1], m |-> m, sent |-> sent]
               ELSE LET end == 1 + end_rel
                        rec == SubSeq(buf1, 1, end)
                        r == PerConnSqlog_forward_frame(
                                 [a EXCEPT !.buf = SubSeq(buf1, end + 1, Len(buf1))], m, rec)
                    IN SqlogDrain(r.a, r.m, sent \o r.sent)

PerConnSqlog_write(a, m, data) == SqlogDrain([a EXCEPT !.buf = @ \o data], m, <<>>)

\* The loop of PerConnSqlog::flush: the frames are taken out of the buffer
\* where they lie (bytes before an RS stay), then the buffer is cleared.
RECURSIVE SqlogFlushLoop(_, _, _)

SqlogFlushNext(r, sent) == SqlogFlushLoop(r.a, r.m, sent \o r.sent)

\* start: position of the first RS; rel_end: of the first LF after it (0: none)
SqlogFlushFrom(a, m, sent, start, rel_end) ==
    IF rel_end = 0
    THEN [a |-> [a EXCEPT !.buf = SubSeq(a.buf, start, Len(a.buf))], m |-> m, sent |-> sent]
    ELSE SqlogFlushNext(
             PerConnSqlog_forward_frame(
                 [a EXCEPT !.buf = SubSeq(a.buf, 1, start - 1)
                                     \o SubSeq(a.buf, start + rel_end + 1, Len(a.buf))],
                 m, SubSeq(a.buf, start, start + rel_end)),
             sent)

SqlogFlushLoop(a, m, sent) ==
    IF FirstIndex(a.buf, RS) = 0 THEN [a |-> a, m |-> m, sent |-> sent]
    ELSE SqlogFlushFrom(a, m, sent, FirstIndex(a.buf, RS),
                        FirstIndex(SubSeq(a.buf, FirstIndex(a.buf, RS) + 1, Len(a.buf)), LF))

PerConnSqlog_flush(a, m) ==
    LET r == SqlogFlushLoop(a, m, <<>>)
    IN [r EXCEPT !.a.buf = <<>>]

-----------------------------------------------------------------------------
(* The qlog subsystem: the QUIC library writes its per-connection JSON-SEQ *)
(* stream into the adapters in chunks, and callers emit events through     *)
(* append_event, in any interleaving (every call runs under the mux lock). *)

\* What the library writes: its own file header, events with a time, and
\* frames that do not parse.
LibFrames ==
    {Frame(HeaderJson("client qlog"))}
    \cup {Frame(EventJson(NoGid, t, <<"quic", ":", "packet_sent">>)) : t \in Times}
    \cup {Frame(EventJson(NoGid, MaxTime, <<"recovery", ":", "metrics_updated">>))}
    \cup {Frame(Junk(h)) : h \in BOOLEAN}

\* A write call carries a whole frame, the head of one, or the closing LF.
LibChunks ==
    LibFrames \cup {SubSeq(f, 1, 2) : f \in LibFrames} \cup {<<LF>>}

HasHeaderByte(s) == \E i \in 1..Len(s) : s[i].hdr

RotParked ==
    /\ rw = 0 /\ rstream = <<>> /\ rlast = 0 /\ rcalls = 0

ProbeParked ==
    /\ hst = <<>> /\ recorder = <<>> /\ processed = 0 /\ err_cnt = 0 /\ delay_ms = 0
    /\ pool = ""

ThrParked ==
    /\ rl = <<>> /\ tnow = 0 /\ tpassed = <<>>

DrvParked == drv = <<>>
KlParked == kl = <<>>
SessParked == sess = <<>>
ResParked == rsv = <<>>
H3Parked == h3 = <<>>

QlogInit ==
    /\ RotParked /\ ProbeParked /\ ThrParked /\ DrvParked /\ KlParked /\ SessParked
    /\ ResParked /\ H3Parked
    /\ mux = QlogMux_new(EmptyFs)
    /\ adapters = [c \in Conns |-> PerConnSqlog_new(c)]
    /\ qclock = 0
    /\ qseen = {}
    /\ qops = 0

\* The library writes `data` to connection c's qlog writer.
AdapterWrite(c, data) ==
    /\ qops < MaxQOps /\ "exited" \notin qseen
    /\ LET r == PerConnSqlog_write(adapters[c], mux, data)
       IN /\ adapters' = [adapters EXCEPT ![c] = r.a]
          /\ mux' = r.m
    /\ qseen' = qseen \cup (IF HasHeaderByte(data) THEN {"lib_header"} ELSE {})
    /\ qops' = qops + 1
    /\ UNCHANGED <<qclock, notQlog>>

\* A caller emits an event for group_id g through the mux (info, error);
\* the clock has advanced by dt since it was last read.
AppendEvent(g, dt) ==
    /\ qops < MaxQOps /\ "exited" \notin qseen
    /\ qclock + dt <= MaxTime
    /\ qclock' = qclock + dt
    /\ mux' = QlogMux_append_event(mux, g, <<"loglevel", ":", "info">>, qclock + dt)
    /\ qops' = qops + 1
    /\ UNCHANGED <<adapters, qseen, notQlog>>

QlogNext ==
    \/ \E c \in Conns, data \in LibChunks : AdapterWrite(c, data)
    \/ \E g \in Conns, dt \in 0..1 : AppendEvent(g, dt)

QlogParked ==
    /\ mux = 0 /\ adapters = 0 /\ qclock = 0 /\ qseen = {} /\ qops = 0

SpecQlog == QlogInit /\ [][QlogNext]_vars

-----------------------------------------------------------------------------
(* The minimiser on event names (qlog.rs): one adapter is handed one event  *)
(* frame of a drawn name, and the frame takes the whole path of             *)
(* PerConnSqlog::write: forward_frame, qvis_minimize_in_place, the mux.     *)

MaxNameWords == 2

\* a name is a namespace with its separator, or nothing, followed by words:
\* the words the rules look for, the separator, a namespace out of place,
\* and a word no rule looks for
NamePrefixes == {<<>>, <<"meta", ":">>, <<"loglevel", ":">>, <<"quic", ":">>,
                 <<"recovery", ":">>, <<"x", ":">>}
NameWords == {":", "recovery", "parameters_set", "error", "closed", "path_",
              "connection_lost", "packet_lost", "stream_data_moved", "x"}

\* every name of a prefix and at most MaxNameWords words; <<>> is the event
\* without a name
EventNames ==
    {prefix \o words : prefix \in NamePrefixes,
                       words \in UNION {[1..n -> NameWords] : n \in 0..MaxNameWords}}

MinInit ==
    /\ RotParked /\ ProbeParked /\ ThrParked /\ DrvParked /\ KlParked /\ SessParked
    /\ ResParked /\ H3Parked
    /\ mux = QlogMux_new(EmptyFs)
    /\ adapters = [a |-> PerConnSqlog_new(1), fed |-> FALSE, name |-> <<>>, sent |-> <<>>]
    /\ qclock = 0
    /\ qseen = {}
    /\ qops = 0

\* The library writes the frame of one event named `name` to the adapter.
MinWrite(name) ==
    /\ ~adapters.fed
    /\ LET r == PerConnSqlog_write(adapters.a, mux, Frame(EventJson(NoGid, 0, name)))
       IN /\ adapters' = [a |-> r.a, fed |-> TRUE, name |-> name, sent |-> r.sent]
          /\ mux' = r.m
    /\ UNCHANGED <<rw, rstream, rlast, rcalls, qclock, qseen, qops, hst, recorder,
                   processed, err_cnt, delay_ms, pool, rl, tnow, tpassed, drv, kl,
                   sess, rsv, h3>>

MinNext == \E name \in EventNames : MinWrite(name)

SpecMinimize == MinInit /\ [][MinNext]_vars

\* main returns and the process ends.  GLOBAL is a static: it is not dropped,
\* so the BufWriter in it is not dropped either, and nothing in main or in
\* qlog.rs flushes it; the files stay as the last flush left them.  mux
\* keeps what the process held when it ended.
ProcessExit ==
    /\ "exited" \notin qseen
    /\ qseen' = qseen \cup {"exited"}
    /\ UNCHANGED <<mux, adapters, qclock, qops, notQlog>>

\* A run with one connection whose frames arrive whole, up to the end of
\* the process.
TeardownNext ==
    \/ \E data \in LibFrames : AdapterWrite(1, data)
    \/ \E dt \in 0..1 : AppendEvent(1, dt)
    \/ ProcessExit

SpecTeardown == QlogInit /\ [][TeardownNext]_vars

-----------------------------------------------------------------------------
(* resolver.rs: resolve_targets on the ordered address list of a lookup.   *)
(* An address is <<class, n>>; a failed lookup (to_socket_addrs returned   *)
(* Err) is the value LookupFailed.  A target is the pair <<family tag,     *)
(* address>>.                                                              *)

A4 == <<"ipv4", "a">>
A6 == <<"ipv6", "a">>
LookupFailed == <<"failed">>
Lookups == {LookupFailed, <<>>, <<A4>>, <<A6, A4>>}

is_ipv4(a) == a[1] = "ipv4"
is_ipv6(a) == a[1] = "ipv6"

\* A find that keeps the last address of the class.
Mut_FirstOf_last(addrs, fam) ==
    LET I == {i \in 1..Len(addrs) : addrs[i][1] = fam}
    IN IF I = {} THEN <<>> ELSE <<addrs[CHOOSE i \in I : \A j \in I : i >= j]>>

\* addrs.into_iter().find(|a| a.is_ipv4()) (or is_ipv6): <<>> is None
FirstOf(addrs, fam) ==
    LET I == {i \in 1..Len(addrs) : addrs[i][1] = fam}
    IN IF I = {} THEN <<>> ELSE <<addrs[CHOOSE i \in I : \A j \in I : i <= j]>>

\* family is "auto", "ipv4" or "ipv6"
resolve_peer(addrs, family) ==
    IF addrs = LookupFailed THEN [ok |-> FALSE, pick |-> <<>>]
    ELSE LET pick == IF family = "auto"
                     THEN (IF addrs = <<>> THEN <<>> ELSE <<Head(addrs)>>)
                     ELSE FirstOf(addrs, family)
         IN [ok |-> pick # <<>>, pick |-> pick]

resolve_peers_for_both(addrs) ==
    IF addrs = LookupFailed THEN [ok |-> FALSE, v4 |-> <<>>, v6 |-> <<>>]
    ELSE LET v4 == FirstOf(addrs, "ipv4")
             v6 == FirstOf(addrs, "ipv6")
         IN [ok |-> ~(v4 = <<>> /\ v6 = <<>>), v4 |-> v4, v6 |-> v6]

resolve_targets(addrs, family) ==
    IF family = "both"
    THEN LET r == resolve_peers_for_both(addrs)
         IN IF ~r.ok THEN [ok |-> FALSE, out |-> <<>>]
            ELSE [ok |-> TRUE,
                  out |-> (IF r.v4 # <<>> THEN << <<"ipv4", r.v4[1]>> >> ELSE <<>>)
                          \o (IF r.v6 # <<>> THEN << <<"ipv6", r.v6[1]>> >> ELSE <<>>)]
    ELSE LET r == resolve_peer(addrs, family)
         IN IF ~r.ok THEN [ok |-> FALSE, out |-> <<>>]
            ELSE [ok |-> TRUE,
                  out |-> << <<IF is_ipv4(r.pick[1]) THEN "ipv4" ELSE "ipv6", r.pick[1]>> >>]

\* One call of resolve_targets on what a lookup returned.
MaxAddrs == 3      \* addresses a lookup returns at most

Addrs == {"ipv4", "ipv6"} \X {"a", "b"}
AddrLists == UNION {[1..n -> Addrs] : n \in 0..MaxAddrs} \cup {LookupFailed}
Families == {"auto", "ipv4", "ipv6", "both"}

ResInit ==
    /\ RotParked /\ QlogParked /\ ProbeParked /\ ThrParked /\ DrvParked /\ KlParked
    /\ SessParked /\ H3Parked
    /\ \E addrs \in AddrLists, family \in Families :
          rsv = [addrs |-> addrs, family |-> family, called |-> FALSE,
                 ok |-> FALSE, out |-> <<>>]

ResolveCall ==
    /\ ~rsv.called
    /\ LET r == resolve_targets(rsv.addrs, rsv.family)
       IN rsv' = [rsv EXCEPT !.called = TRUE, !.ok = r.ok, !.out = r.out]
    /\ UNCHANGED notRes

SpecResolve == ResInit /\ [][ResolveCall]_vars

-----------------------------------------------------------------------------
(* The HTTP/3 probe application (probes/src/h3.rs).  One H3App is built    *)
(* for one connection.  What the model keeps of the connection is the      *)
(* sequence of calls the application makes on it and on the HTTP/3 layer.  *)
(* An Option is a sequence of length 0 or 1.                               *)

U16Max == 65535
Digits == <<"0", "1", "2", "3", "4", "5", "6", "7", "8", "9">>
IsDigit(c) == \E i \in 1..Len(Digits) : Digits[i] = c
DigitVal(c) == (CHOOSE i \in 1..Len(Digits) : Digits[i] = c) - 1

RECURSIVE DecimalValue(_, _)
DecimalValue(chars, acc) ==
    IF chars = <<>> THEN acc
    ELSE DecimalValue(Tail(chars), 10 * acc + DigitVal(Head(chars)))

\* s.parse::<u16>(): Some(n) for a non-empty run of digits whose value fits.
parse_u16(chars) ==
    IF chars = <<>> \/ \E i \in 1..Len(chars) : ~IsDigit(chars[i]) THEN <<>>
    ELSE IF DecimalValue(chars, 0) > U16Max THEN <<>>
    ELSE <<DecimalValue(chars, 0)>>

\* A header: its name and its value, a byte string that is valid UTF-8 or not.
Hdr(name, utf8, chars) == [name |-> name, utf8 |-> utf8, chars |-> chars]

\* The `for hdr in headers.iter()` loop: the last :status that parses wins.
RECURSIVE ExtractStatus(_, _)
ExtractStatus(status, headers) ==
    IF headers = <<>> THEN status
    ELSE LET hdr == Head(headers)
             code == IF hdr.name = ":status" /\ hdr.utf8 THEN parse_u16(hdr.chars) ELSE <<>>
         IN ExtractStatus(IF code # <<>> THEN code ELSE status, Tail(headers))

H3App_new == [h3 |-> FALSE, req_stream |-> <<>>, status |-> <<>>, headers_seen |-> FALSE]

ConnClose(code, reason) == <<"close", code, reason>>

\* The stream id Http3Connection::stream_new returns for the first request.
ReqStream == 0

\* An on_connected that keeps the HTTP/3 connection and the stream when
\* sending the request headers fails.
Mut_on_connected_keeps_h3(st, fault) ==
    IF fault = "hdr"
    THEN [app |-> [st.app EXCEPT !.h3 = TRUE, !.req_stream = <<ReqStream>>],
          calls |-> st.calls \o << <<"stream_new", ReqStream>>, ConnClose(1, "hdr") >>]
    ELSE [app |-> st.app, calls |-> Append(st.calls, ConnClose(1, fault))]

\* fault names the step that fails: the Http3Config ("h3cfg"), the
\* Http3Connection ("h3init"), stream_new ("h3sid"), send_headers ("hdr"),
\* or "none".
H3App_on_connected(st, fault) ==
    IF fault = "h3cfg" THEN [st EXCEPT !.calls = Append(@, ConnClose(1, "h3cfg"))]
    ELSE IF fault = "h3init" THEN [st EXCEPT !.calls = Append(@, ConnClose(1, "h3init"))]
    ELSE IF fault = "h3sid" THEN [st EXCEPT !.calls = Append(@, ConnClose(1, "h3sid"))]
    ELSE LET sid == ReqStream
             c1 == Append(st.calls, <<"stream_new", sid>>)
         IN IF fault = "hdr"
            THEN [st EXCEPT !.calls = Append(c1, ConnClose(1, "hdr"))]
            ELSE [app |-> [st.app EXCEPT !.h3 = TRUE, !.req_stream = <<sid>>],
                  calls |-> Append(c1, <<"send_headers", sid>>)]

\* One arm of the `match event`, with an arm that closes on every Headers
\* event, fin or not.
Mut_H3App_on_event_close_on_headers(st, ev) ==
    IF ev.k \in {"Headers", "Finished"}
    THEN [st EXCEPT !.calls = @ \o << <<"stream_close", ev.sid>>, ConnClose(0, "ok") >>]
    ELSE st

\* One iteration of the poll loop: the `match event` on (sid, event).
H3App_on_event(st, ev) ==
    IF ev.k = "Headers"
    THEN LET app1 == [st.app EXCEPT !.status = ExtractStatus(@, ev.headers),
                                    !.headers_seen = TRUE]
         IN [app |-> app1,
             calls |-> IF ev.fin
                       THEN st.calls \o << <<"stream_close", ev.sid>>, ConnClose(0, "ok") >>
                       ELSE st.calls]
    ELSE IF ev.k = "Data"
    THEN [st EXCEPT !.calls = Append(@, <<"recv_body", ev.sid>>)]
    ELSE IF ev.k = "Finished"
    THEN [st EXCEPT !.calls = @ \o << <<"stream_close", ev.sid>>, ConnClose(0, "ok") >>]
    ELSE st

\* The loop over h3.poll: evs are the events poll yields before its Err.
RECURSIVE H3PollLoop(_, _)
H3PollLoop(st, evs) ==
    IF evs = <<>> THEN st ELSE H3PollLoop(H3App_on_event(st, Head(evs)), Tail(evs))

H3App_on_stream_readable(st, evs) ==
    IF ~st.app.h3 THEN st ELSE H3PollLoop(st, evs)

MaxH3Calls == 2    \* stream-readable callbacks of one connection
MaxH3Events == 1   \* events one run of the poll loop yields

HeaderLists ==
    { <<>>,
      << Hdr(":status", TRUE, <<"2", "0", "0">>) >>,
      << Hdr(":status", TRUE, <<"7", "0", "0", "0", "0">>) >>,
      << Hdr(":status", TRUE, <<"2", "x">>) >>,
      << Hdr(":status", FALSE, <<"2", "0", "0">>) >>,
      << Hdr(":status", TRUE, <<"2", "0", "0">>), Hdr(":status", TRUE, <<"4", "0", "4">>) >>,
      << Hdr("server", TRUE, <<"2", "0", "0">>) >> }

H3Ev(k, headers, fin) == [k |-> k, sid |-> ReqStream, headers |-> headers, fin |-> fin]

\* The request is the only request stream of the connection, so the
\* Headers, Data and Finished events HTTP/3 reports carry its id.
H3Events ==
    {H3Ev("Headers", hl, fin) : hl \in HeaderLists, fin \in BOOLEAN}
      \cup {H3Ev(k, <<>>, FALSE) : k \in {"Data", "Finished", "GoAway", "Reset", "PriorityUpdate"}}

H3EventRuns == UNION {[1..n -> H3Events] : n \in 0..MaxH3Events}

ConnectFaults == {"none", "h3cfg", "h3init", "h3sid", "hdr"}

H3Init ==
    /\ h3 = [st |-> [app |-> H3App_new, calls |-> <<>>], connected |-> FALSE,
             fault |-> "none", ncb |-> 0, polled |-> <<>>]
    /\ RotParked /\ QlogParked /\ ProbeParked /\ ThrParked /\ DrvParked /\ KlParked
    /\ SessParked /\ ResParked

\* The handshake completes and the handler calls on_connected, once.
H3Connected(fault) ==
    /\ ~h3.connected
    /\ h3' = [h3 EXCEPT !.st = H3App_on_connected(@, fault),
                        !.connected = TRUE, !.fault = fault]
    /\ UNCHANGED <<notH3>>

\* A stream of the connection is readable; evs is what the HTTP/3 layer
\* would yield.  polled is what the application took from it.
H3StreamReadable(evs) ==
    /\ h3.connected
    /\ h3.ncb < MaxH3Calls
    /\ h3' = [h3 EXCEPT !.st = H3App_on_stream_readable(@, evs),
                        !.ncb = @ + 1,
                        !.polled = IF h3.st.app.h3 THEN evs ELSE <<>>]
    /\ UNCHANGED <<notH3>>

H3Next ==
    \/ \E fault \in ConnectFaults : H3Connected(fault)
    \/ \E evs \in H3EventRuns : H3StreamReadable(evs)

SpecH3 == H3Init /\ [][H3Next]_vars

-----------------------------------------------------------------------------
(* The request the application sends on connect.  A string is a sequence   *)
(* of pieces, so that concatenation is \o.  h3 holds the values probe has  *)
(* at hand (host, address, profile), the application built from them and   *)
(* the calls made on the HTTP/3 layer.                                      *)

\* SocketAddr's Display: ip:port, with the ip in brackets for IPv6
SocketAddr_to_string(addr) ==
    IF addr.v6 THEN <<"[">> \o addr.ip \o <<"]", ":", addr.port>>
    ELSE addr.ip \o <<":", addr.port>>

Header_new(name, value) == [name |-> name, value |-> value]

\* H3App::new: the fields the request is built from
H3App_new_request(host, peer_addr, path, user_agent) ==
    [host |-> host, peer_addr |-> peer_addr,
     path |-> SocketAddr_to_string(peer_addr) \o path,
     user_agent |-> user_agent, h3 |-> FALSE, req_stream |-> <<>>]

\* the `headers` array of H3App::on_connected
H3App_headers(app) ==
    << Header_new(":method", <<"GET">>),
       Header_new(":scheme", <<"https">>),
       Header_new(":authority", app.host),
       Header_new(":path", app.path),
       Header_new("user-agent", app.user_agent),
       Header_new("accept", <<"*/*">>) >>

\* H3App::on_connected with the request spelled out: the calls it makes
\* and the fields it leaves.
H3App_on_connected_request(st, fault) ==
    IF fault \in {"h3cfg", "h3init", "h3sid"}
    THEN [st EXCEPT !.calls = Append(@, ConnClose(1, fault))]
    ELSE LET c1 == Append(st.calls, <<"stream_new", ReqStream>>)
         IN IF fault = "hdr"
            THEN [st EXCEPT !.calls = Append(c1, ConnClose(1, "hdr"))]
            ELSE [app |-> [st.app EXCEPT !.h3 = TRUE, !.req_stream = <<ReqStream>>],
                  calls |-> Append(c1, <<"send_headers", ReqStream,
                                         H3App_headers(st.app), TRUE>>)]

\* H3State::new of run_connection_config: host and cfg.path
H3State_new(host, path) == [host |-> host, path |-> path, h3 |-> FALSE]

\* the `headers` vector of TransportCb::on_conn_established
TransportCb_headers(st) ==
    << Header_new(":method", <<"GET">>),
       Header_new(":scheme", <<"https">>),
       Header_new(":authority", st.host),
       Header_new(":path", st.path),
       Header_new("user-agent", <<"h3-probe (tquic)">>) >>

\* TransportCb::on_conn_established: the HTTP/3 part
TransportCb_on_conn_established(st, fault) ==
    IF fault \in {"h3cfg", "h3init", "h3sid"} THEN st
    ELSE LET c1 == Append(st.calls, <<"stream_new", ReqStream>>)
         IN IF fault = "hdr" THEN [st EXCEPT !.calls = c1]
            ELSE [app |-> [st.app EXCEPT !.h3 = TRUE],
                  calls |-> Append(c1, <<"send_headers", ReqStream,
                                         TransportCb_headers(st.app), TRUE>>)]

ReqHosts == {<<"example.org">>, <<"a.test">>}
PeerAddrs ==
    {[ip |-> <<"192.0.2.1">>, v6 |-> FALSE, port |-> "443"],
     [ip |-> <<"2001:db8::1">>, v6 |-> TRUE, port |-> "8443"]}
Paths == {<<"/">>, <<"/", "index.html">>, <<"/", "search", "?q=1">>}
UserAgents == {<<"quic-lab">>, <<"curl/8">>}
ReqDrivers == {"open_connection", "run_connection_config"}

\* probe has resolved an address for the host and holds the profile.
ReqInit ==
    /\ \E host \in ReqHosts, addr \in PeerAddrs, path \in Paths, ua \in UserAgents,
          driver \in ReqDrivers :
          h3 = [host |-> host, addr |-> addr, path |-> path, user_agent |-> ua,
                driver |-> driver, phase |-> "resolved", st |-> <<>>, fault |-> "none"]
    /\ RotParked /\ QlogParked /\ ProbeParked /\ ThrParked /\ DrvParked /\ KlParked
    /\ SessParked /\ ResParked

\* The application state is built for the connection.
ReqNew ==
    /\ h3.phase = "resolved"
    /\ h3' = [h3 EXCEPT
                 !.phase = "built",
                 !.st = [app |-> IF h3.driver = "open_connection"
                                 THEN H3App_new_request(h3.host, h3.addr, h3.path,
                                                        h3.user_agent)
                                 ELSE H3State_new(h3.host, h3.path),
                         calls |-> <<>>]]
    /\ UNCHANGED <<notH3>>

\* The handshake completes and the handler runs the application's connect
\* callback.
ReqConnected(fault) ==
    /\ h3.phase = "built"
    /\ h3' = [h3 EXCEPT
                 !.phase = "connected",
                 !.fault = fault,
                 !.st = IF h3.driver = "open_connection"
                        THEN H3App_on_connected_request(@, fault)
                        ELSE TransportCb_on_conn_established(@, fault)]
    /\ UNCHANGED <<notH3>>

ReqNext ==
    \/ ReqNew
    \/ \E fault \in ConnectFaults : ReqConnected(fault)

SpecRequest == ReqInit /\ [][ReqNext]_vars

-----------------------------------------------------------------------------
(* recorder.rs: the lines written, counted per key *)

Hosts == 1..NHosts
\* ip_version of the configured profiles, in declaration order
Profiles == <<"both", "auto">>
\* A connection's trace_id: the host and the ordinal of its attempt.
Keys == Hosts \X (1..(2 * Len(Profiles)))

Recorder_new(enabled) ==
    [enabled |-> enabled, lines |-> [k \in Keys |-> 0], failed |-> FALSE]

\* io_ok: serialising and writing the line succeeds; an Err goes to the caller
Recorder_write_for_key(rec, key, io_ok) ==
    IF ~rec.enabled THEN rec
    ELSE IF io_ok THEN [rec EXCEPT !.lines[key] = @ + 1]
    ELSE [rec EXCEPT !.failed = TRUE]

-----------------------------------------------------------------------------
(* The probe: main.rs hands every host to a pool worker, which runs        *)
(* h3::probe for it; probe drives one connection at a time through         *)
(* quic::open_connection, whose handler writes the summary records.        *)

None == <<>>

\* How open_connection can return Err: a `?` in Client::new or connect
\* (setup), a socket recv error after an ICMP answer, or another I/O error.
\* (host unreachable takes the path of connection refused: a recv error)
ErrKinds == {"setup_error", "conn_refused"}
\* How the library can close the connection (on_conn_closed runs).
ClosedKinds == {"success", "handshake_timeout"}

Workers == 1..NWorkers

IdleHost ==
    [pc |-> "idle", idx |-> 0, targets |-> <<>>, pos |-> 0, natt |-> 0,
     cur |-> None, prev |-> None, finish |-> FALSE, result |-> "none",
     worker |-> 0, takes |-> 0]

Ended(h) == hst[h].pc \in {"done", "panicked"}
Running == {h \in Hosts : hst[h].pc # "idle" /\ ~Ended(h)}
Busy(w) == \E h \in Running : hst[h].worker = w

\* `for (_fam_eff, addr) in targets`: the candidate of the pos-th iteration
Mut_Candidate_reversed(targets, pos) == targets[Len(targets) + 1 - pos][2]
Candidate(targets, pos) == targets[pos][2]

ProbeInit ==
    /\ RotParked /\ QlogParked /\ ThrParked /\ DrvParked /\ KlParked /\ SessParked
    /\ ResParked /\ H3Parked
    /\ hst = [h \in Hosts |-> IdleHost]
    /\ \E en \in BOOLEAN : recorder = Recorder_new(en)
    /\ processed = 0
    /\ err_cnt = 0
    /\ delay_ms \in {0, 1}
    /\ pool = "running"

\* probe returned to the closure of par_iter().for_each
\* (its locals are gone)
Returned(st, res) ==
    [st EXCEPT !.pc = "done", !.result = res, !.cur = None,
               !.idx = 0, !.targets = <<>>, !.pos = 0]

\* A probe that sleeps between profiles whatever the configured delay is.
Mut_AfterProfile_sleeps_on_zero(st) ==
    IF st.idx < Len(Profiles) THEN [st EXCEPT !.pc = "sleep"]
    ELSE Returned(st, "ok")

\* The inner loop is over without a success: sleep, next profile, or return.
AfterProfile(st) ==
    IF st.idx < Len(Profiles)
    THEN IF delay_ms > 0 THEN [st EXCEPT !.pc = "sleep"]
         ELSE [st EXCEPT !.pc = "resolve", !.idx = @ + 1]
    ELSE Returned(st, "ok")

\* The closure's tail once probe has returned: processed.fetch_add(1), and
\* err_cnt.fetch_add(1) if probe returned Err.
Mut_Counted_ok_only(st) == IF st.pc = "done" /\ st.result = "ok" THEN 1 ELSE 0
Counted(st) == IF st.pc = "done" THEN 1 ELSE 0
Mut_CountedErr_twice(st) == IF st.pc = "done" /\ st.result = "err" THEN 2 ELSE 0
CountedErr(st) == IF st.pc = "done" /\ st.result = "err" THEN 1 ELSE 0

\* Pool worker w takes host h, which no worker has had, and enters probe.
WorkerTake(w, h) ==
    /\ pool = "running"
    /\ hst[h].pc = "idle"
    /\ ~Busy(w)
    /\ hst' = [hst EXCEPT ![h] = [@ EXCEPT !.pc = "resolve", !.idx = 1,
                                           !.worker = w, !.takes = @ + 1]]
    /\ UNCHANGED <<recorder, processed, err_cnt, delay_ms, pool, notProbe>>

\* resolve_targets(host, att.port, att.ip_version)?
Resolve(h, addrs) ==
    /\ hst[h].pc = "resolve"
    /\ LET r == resolve_targets(addrs, Profiles[hst[h].idx])
           nx == IF r.ok
                 THEN [hst[h] EXCEPT !.pc = "acquire", !.targets = r.out, !.pos = 1]
                 ELSE Returned(hst[h], "err")
       IN /\ hst' = [hst EXCEPT ![h] = nx]
          /\ err_cnt' = err_cnt + CountedErr(nx)
          /\ processed' = processed + Counted(nx)
    /\ UNCHANGED <<recorder, delay_ms, pool, notProbe>>

\* rl.until_ready() returns, the app is built and open_connection is entered.
StartAttempt(h) ==
    /\ hst[h].pc = "acquire"
    /\ hst' = [hst EXCEPT ![h] =
                 [@ EXCEPT !.pc = "loop", !.natt = @ + 1, !.finish = FALSE,
                           !.cur = [idx |-> hst[h].idx, pos |-> hst[h].pos,
                                    n |-> Len(hst[h].targets),
                                    addr |-> Candidate(hst[h].targets, hst[h].pos),
                                    kind |-> "open"]]]
    /\ UNCHANGED <<recorder, processed, err_cnt, delay_ms, pool, notProbe>>

\* open_connection returns Err: probe logs it and `continue`s.
AttemptErr(h, kind) ==
    /\ hst[h].pc = "loop" /\ ~hst[h].finish
    /\ LET st == [hst[h] EXCEPT !.prev = [hst[h].cur EXCEPT !.kind = kind], !.cur = None]
           nx == IF st.pos < Len(st.targets)
                 THEN [st EXCEPT !.pc = "acquire", !.pos = @ + 1]
                 ELSE AfterProfile(st)
       IN /\ hst' = [hst EXCEPT ![h] = nx]
          /\ processed' = processed + Counted(nx)
    /\ UNCHANGED <<recorder, err_cnt, delay_ms, pool, notProbe>>

\* What on_conn_closed leaves in the worker's state: set_finish(true); the
\* results of the artefact writes (w1, w2) are logged and dropped.
Mut_ClosedState_propagates(st, kind, w1, w2) ==
    IF w1 /\ w2 THEN [st EXCEPT !.finish = TRUE, !.cur.kind = kind]
    ELSE [st EXCEPT !.finish = TRUE, !.cur.kind = "io_error"]
ClosedState(st, kind, w1, w2) == [st EXCEPT !.finish = TRUE, !.cur.kind = kind]

\* ClientHandler::on_conn_closed, which ends in H3App::on_conn_closed; the
\* driver's write of the record succeeds or not (w1), and so the app's (w2).
OnConnClosed(h, kind, w1, w2) ==
    /\ hst[h].pc = "loop" /\ ~hst[h].finish
    /\ hst' = [hst EXCEPT ![h] = ClosedState(@, kind, w1, w2)]
    /\ LET id == <<h, hst[h].natt>>
           r1 == Recorder_write_for_key(recorder, id, w1)
       IN recorder' = Recorder_write_for_key(r1, id, w2)
    /\ UNCHANGED <<processed, err_cnt, delay_ms, pool, notProbe>>

\* client.finish() is true: open_connection returns Ok(()), probe sets
\* attempt_succeeded, breaks out of both loops and returns Ok(()).
LoopExit(h) ==
    /\ hst[h].pc = "loop" /\ hst[h].finish
    /\ LET nx == Returned([hst[h] EXCEPT !.prev = hst[h].cur], "ok")
       IN /\ hst' = [hst EXCEPT ![h] = nx]
          /\ processed' = processed + Counted(nx)
    /\ UNCHANGED <<recorder, err_cnt, delay_ms, pool, notProbe>>

\* thread::sleep(inter_attempt_delay_ms) is over
Wake(h) ==
    /\ hst[h].pc = "sleep"
    /\ hst' = [hst EXCEPT ![h] = [@ EXCEPT !.pc = "resolve", !.idx = @ + 1]]
    /\ UNCHANGED <<recorder, processed, err_cnt, delay_ms, pool, notProbe>>

\* The worker panics while it handles h: the closure unwinds, its tail
\* (the counters) does not run; the pool keeps the panic for the caller.
Panic(h) ==
    /\ h \in Running
    /\ hst' = [hst EXCEPT ![h] = [IdleHost EXCEPT !.pc = "panicked",
                                                  !.worker = hst[h].worker,
                                                  !.takes = hst[h].takes]]
    /\ UNCHANGED <<recorder, processed, err_cnt, delay_ms, pool, notProbe>>

\* Every host has been handled: par_iter().for_each returns to main, or
\* resumes there the panic of a closure (main has no catch_unwind).
PoolFinish ==
    /\ pool = "running"
    /\ \A h \in Hosts : Ended(h)
    /\ pool' = IF \E h \in Hosts : hst[h].pc = "panicked" THEN "unwound" ELSE "finished"
    /\ UNCHANGED <<hst, recorder, processed, err_cnt, delay_ms, notProbe>>

ProbeNext ==
    \/ \E w \in Workers, h \in Hosts : WorkerTake(w, h)
    \/ \E h \in Hosts : Panic(h)
    \/ PoolFinish
    \/ \E h \in Hosts, addrs \in Lookups : Resolve(h, addrs)
    \/ \E h \in Hosts : StartAttempt(h)
    \/ \E h \in Hosts, kind \in ErrKinds : AttemptErr(h, kind)
    \/ \E h \in Hosts, kind \in ClosedKinds, w1 \in BOOLEAN, w2 \in BOOLEAN :
          OnConnClosed(h, kind, w1, w2)
    \/ \E h \in Hosts : LoopExit(h)
    \/ \E h \in Hosts : Wake(h)

SpecProbe == ProbeInit /\ [][ProbeNext]_vars

-----------------------------------------------------------------------------
(* throttle.rs: the limiter shared by all workers.  The quota is rps       *)
(* tokens per second with a bucket of `burst`; `taken` is what the limiter *)
(* has handed out (its state changes only when a decision is polled).      *)

RateLimit_per_second(rps, burst) ==
    IF rps = 0 THEN [inner |-> None]
    ELSE [inner |-> [rps |-> rps, burst |-> IF burst > 1 THEN burst ELSE 1, taken |-> 0]]

\* `let _ = lim.until_ready();` builds the future of an async fn and drops
\* it without polling it: the limiter is not consulted and the call returns.
RateLimit_until_ready(r) == r

ThrInit ==
    /\ RotParked /\ QlogParked /\ ProbeParked /\ DrvParked /\ KlParked /\ SessParked
    /\ ResParked /\ H3Parked
    /\ \E rps \in 0..MaxRps, burst \in 0..MaxBurst : rl = RateLimit_per_second(rps, burst)
    /\ tnow = 0
    /\ tpassed = [t \in 0..MaxTick |-> 0]

PassesIn(from, to) ==
    LET RECURSIVE Sum(_)
        Sum(t) == IF t > to \/ t > MaxTick THEN 0 ELSE tpassed[t] + Sum(t + 1)
    IN Sum(from)

\* Some worker calls rl.until_ready() before an attempt, and the call returns.
UntilReady ==
    /\ PassesIn(0, MaxTick) < MaxPasses
    /\ rl' = RateLimit_until_ready(rl)
    /\ tpassed' = [tpassed EXCEPT ![tnow] = @ + 1]
    /\ UNCHANGED <<tnow, notThr>>

\* Time passes.
Tick ==
    /\ tnow < MaxTick
    /\ tnow' = tnow + 1
    /\ UNCHANGED <<rl, tpassed, notThr>>

ThrNext == UntilReady \/ Tick

SpecThrottle == ThrInit /\ [][ThrNext]_vars

-----------------------------------------------------------------------------
(* One attempt under a driver loop.  The repository has two drivers:       *)
(* run_connection_config (transport/quic.rs), with a handshake and an      *)
(* overall deadline, and open_connection (transport/quic/quic.rs), the one *)
(* h3::probe calls.  The library's callbacks and the socket's errors are   *)
(* the environment; time is counted in ticks from t_start.                 *)

Drivers == {"run_connection_config", "open_connection"}

DrvInit ==
    /\ RotParked /\ QlogParked /\ ProbeParked /\ ThrParked /\ KlParked /\ SessParked
    /\ ResParked /\ H3Parked
    /\ \E d \in Drivers :
          drv = [driver |-> d, pc |-> "loop", now |-> 0, last_check |-> 0,
                 hs_ok |-> FALSE,     \* t_handshake_ok_ms.is_some() / is_established()
                 done |-> FALSE,      \* H3State.done / ClientContext.finish
                 error |-> "none",    \* H3State.error
                 closed |-> "no",     \* why the library closed the connection
                 ret |-> "none", errkind |-> "none", outcome |-> "none"]

\* on_conn_established; building the HTTP/3 layer on it can fail (h3ok).
DrvEstablished(h3ok) ==
    /\ drv.pc = "loop" /\ ~drv.hs_ok /\ ~drv.done
    /\ drv' = IF drv.driver = "run_connection_config" /\ ~h3ok
              THEN [drv EXCEPT !.hs_ok = TRUE, !.error = "h3 init failed", !.done = TRUE]
              ELSE [drv EXCEPT !.hs_ok = TRUE]
    /\ UNCHANGED notDrv

\* TransportCb::on_stream_readable: a Finished event, or a poll error.
DrvAppDone(err) ==
    /\ drv.driver = "run_connection_config"
    /\ drv.pc = "loop" /\ drv.hs_ok /\ ~drv.done
    /\ drv' = [drv EXCEPT !.done = TRUE,
                          !.error = IF err THEN "h3 poll error" ELSE @]
    /\ UNCHANGED notDrv

\* on_conn_closed: the library has closed the connection (the peer closed
\* it, the application closed it, or one of the library's timers fired).
DrvConnClosed(kind) ==
    /\ drv.pc = "loop" /\ drv.closed = "no"
    /\ kind = "handshake_timeout" => ~drv.hs_ok
    /\ kind = "app_close" => drv.hs_ok /\ drv.driver = "open_connection"
    /\ drv' = [drv EXCEPT !.closed = kind, !.done = TRUE]
    /\ UNCHANGED notDrv

\* A `?` in the loop returns Err: socket recv error, process_connections, poll.
DrvIoErr(kind) ==
    /\ drv.pc = "loop"
    /\ drv' = [drv EXCEPT !.pc = "returned", !.ret = "err", !.errkind = kind]
    /\ UNCHANGED notDrv

\* Exit conditions that test the two deadlines before `done`.
Mut_run_connection_config_check_deadlines_first(d) ==
    LET brk(e) == [d EXCEPT !.pc = "returned", !.ret = "ok", !.error = e,
                            !.last_check = d.now,
                            !.outcome = IF d.hs_ok THEN "nonretryable" ELSE "retryable"]
    IN IF ~d.hs_ok /\ d.now >= HsDeadline THEN brk("handshake timeout")
       ELSE IF d.now >= OverallDeadline THEN brk("overall timeout")
       ELSE IF d.done THEN brk(d.error)
       ELSE [d EXCEPT !.last_check = d.now]

\* run_connection_config: the exit conditions at the end of an iteration,
\* then the record and the outcome.
run_connection_config_check(d) ==
    LET brk(e) == [d EXCEPT !.pc = "returned", !.ret = "ok", !.error = e,
                            !.last_check = d.now,
                            !.outcome = IF d.hs_ok THEN "nonretryable" ELSE "retryable"]
    IN IF d.done THEN brk(d.error)
       ELSE IF ~d.hs_ok /\ d.now >= HsDeadline THEN brk("handshake timeout")
       ELSE IF d.now >= OverallDeadline THEN brk("overall timeout")
       ELSE [d EXCEPT !.last_check = d.now]

\* open_connection: `if client.finish() { break; }`, else poll again.
open_connection_check(d) ==
    IF d.done THEN [d EXCEPT !.pc = "returned", !.ret = "ok", !.last_check = d.now]
    ELSE [d EXCEPT !.last_check = d.now]

\* One iteration of the driver's loop reaches its exit test.
DrvLoopCheck ==
    /\ drv.pc = "loop"
    /\ drv' = IF drv.driver = "run_connection_config"
              THEN run_connection_config_check(drv)
              ELSE open_connection_check(drv)
    /\ UNCHANGED notDrv

DrvTick ==
    /\ drv.pc = "loop" /\ drv.now < MaxNow
    /\ drv' = [drv EXCEPT !.now = @ + 1]
    /\ UNCHANGED notDrv

CloseKinds == {"peer_close", "idle_timeout", "handshake_timeout", "app_close"}
IoErrKinds == {"conn_refused", "host_unreachable", "io_error"}

DrvNext ==
    \/ \E h3ok \in BOOLEAN : DrvEstablished(h3ok)
    \/ \E err \in BOOLEAN : DrvAppDone(err)
    \/ \E kind \in CloseKinds : DrvConnClosed(kind)
    \/ \E kind \in IoErrKinds : DrvIoErr(kind)
    \/ DrvLoopCheck
    \/ DrvTick

SpecDriver == DrvInit /\ [][DrvNext]_vars

-----------------------------------------------------------------------------
(* The RefCell the driver loop shares with the library's callbacks:        *)
(* Rc<RefCell<H3State>> in run_connection_config, Rc<RefCell<ClientContext>>*)
(* in open_connection.  Everything runs on one thread: a callback runs     *)
(* inside a call the driver makes on the Endpoint (recv,                   *)
(* process_connections, on_timeout), to its end.  Calls on the Connection  *)
(* or on the HTTP/3 layer made inside a callback run no callback.  A       *)
(* handler is the sequence of its operations on the cell; drv.st holds the *)
(* cell's borrow state and the fields the branches read.                   *)

MaxDrvIter == 3    \* iterations of the driver loop

CellInit ==
    [readers |-> 0, writer |-> FALSE, panicked |-> FALSE,
     done |-> FALSE, hs_ok |-> FALSE, h3 |-> FALSE, closed |-> FALSE, cb_ran |-> FALSE]

CellFree(st) == st.readers = 0 /\ ~st.writer

\* RefCell::borrow, borrow_mut (try_borrow_mut().unwrap() panics alike),
\* the drop of a Ref or RefMut, and the writes made through a RefMut.
CellOp(st, op) ==
    IF st.panicked THEN st
    ELSE IF op = "borrow"
    THEN IF st.writer THEN [st EXCEPT !.panicked = TRUE]
         ELSE [st EXCEPT !.readers = @ + 1]
    ELSE IF op = "borrow_mut"
    THEN IF st.writer \/ st.readers > 0 THEN [st EXCEPT !.panicked = TRUE]
         ELSE [st EXCEPT !.writer = TRUE]
    ELSE IF op = "drop" THEN [st EXCEPT !.readers = @ - 1]
    ELSE IF op = "drop_mut" THEN [st EXCEPT !.writer = FALSE]
    ELSE IF op = "set_done" THEN [st EXCEPT !.done = TRUE]
    ELSE IF op = "set_hs_ok" THEN [st EXCEPT !.hs_ok = TRUE]
    ELSE IF op = "set_h3" THEN [st EXCEPT !.h3 = TRUE]
    ELSE st     \* "conn": a call on the Connection or the HTTP/3 layer

RECURSIVE RunOps(_, _)
RunOps(st, ops) ==
    IF ops = <<>> THEN st ELSE RunOps(CellOp(st, Head(ops)), Tail(ops))

\* TransportCb::on_conn_established: st is borrowed mutably to the end.
TransportCb_established_ops(fault) ==
    IF fault = "h3init"
    THEN <<"borrow_mut", "set_hs_ok", "conn", "set_done", "drop_mut">>
    ELSE IF fault = "h3sid"
    THEN <<"borrow_mut", "set_hs_ok", "conn", "conn", "set_done", "drop_mut">>
    ELSE IF fault = "hdr"
    THEN <<"borrow_mut", "set_hs_ok", "conn", "conn", "conn", "set_done", "drop_mut">>
    ELSE <<"borrow_mut", "set_hs_ok", "conn", "conn", "conn", "set_h3", "drop_mut">>

\* TransportCb::on_stream_readable for one polled event and the poll's
\* final Err: each borrow is a block or a match arm of its own.
TransportCb_readable_ops(has_h3, ev) ==
    IF ~has_h3 THEN <<"borrow_mut", "drop_mut">>
    ELSE LET poll == <<"borrow_mut", "conn", "drop_mut">>
         IN IF ev = "Headers" THEN poll \o <<"borrow_mut", "drop_mut">> \o poll
            ELSE IF ev = "Data" THEN poll \o <<"borrow_mut", "conn", "drop_mut">> \o poll
            ELSE IF ev = "Finished" THEN poll \o <<"borrow_mut", "set_done", "drop_mut">>
            ELSE IF ev = "PollError" THEN poll \o <<"borrow_mut", "set_done", "drop_mut">>
            ELSE poll \o poll     \* GoAway, PriorityUpdate, Reset, or none

\* TransportCb::on_conn_closed
TransportCb_closed_ops == <<"borrow_mut", "set_done", "drop_mut">>

\* ClientHandler::on_conn_closed: `context` lives to the end of the handler,
\* over the session write, the record and the application's on_conn_closed.
ClientHandler_closed_ops ==
    <<"borrow_mut", "set_done", "conn", "conn", "conn", "drop_mut">>

\* ClientHandler::on_conn_established and on_stream_readable go to the
\* application, which does not know the context.
ClientHandler_app_ops == <<"conn">>

BorrowDrivers == {"run_connection_config", "open_connection"}
ReadableEvents == {"Headers", "Data", "Finished", "PollError", "Other"}
BorrowFaults == {"none", "h3init", "h3sid", "hdr"}

\* The callbacks the library may run now, each as its operations.
CallbackOps(driver, st) ==
    (IF ~st.hs_ok /\ ~st.closed
     THEN IF driver = "open_connection" THEN {<<"set_hs_ok">> \o ClientHandler_app_ops}
          ELSE {TransportCb_established_ops(f) : f \in BorrowFaults}
     ELSE {})
    \cup
    (IF st.hs_ok /\ ~st.closed
     THEN IF driver = "open_connection" THEN {ClientHandler_app_ops}
          ELSE {TransportCb_readable_ops(st.h3, ev) : ev \in ReadableEvents}
     ELSE {})
    \cup
    (IF ~st.closed
     THEN IF driver = "open_connection" THEN {ClientHandler_closed_ops}
          ELSE {TransportCb_closed_ops}
     ELSE {})

\* A process_read_event whose Ref stays alive over endpoint.recv.
Mut_read_event_test_keeps_ref(st) == RunOps(st, <<"borrow">>)

\* `if self.context.borrow().finish()`: the Ref is a temporary of the
\* condition and is dropped before the body runs.
read_event_test(st) == RunOps(st, <<"borrow", "drop">>)

\* Client::finish: `let context = self.context.borrow(); context.finish()`
Client_finish(st) == RunOps(st, <<"borrow", "drop">>)

\* The exit block of run_connection_config.  hs_due, all_due: the clock
\* has reached the handshake deadline, the overall deadline.
run_connection_config_exit(st, hs_due, all_due) ==
    LET s1 == RunOps(st, <<"borrow">>)
    IN IF s1.done THEN [st |-> RunOps(s1, <<"drop">>), brk |-> TRUE]
       ELSE IF ~s1.hs_ok /\ hs_due
       THEN [st |-> RunOps(s1, <<"drop", "borrow_mut", "drop_mut">>), brk |-> TRUE]
       ELSE IF all_due
       THEN [st |-> RunOps(s1, <<"drop", "borrow_mut", "drop_mut">>), brk |-> TRUE]
       ELSE [st |-> RunOps(s1, <<"drop">>), brk |-> FALSE]

BorInit ==
    /\ \E d \in BorrowDrivers :
          drv = [driver |-> d, pc |-> IF d = "open_connection" THEN "process" ELSE "recv",
                 iter |-> 0, st |-> CellInit]
    /\ RotParked /\ QlogParked /\ ProbeParked /\ ThrParked /\ KlParked /\ SessParked
    /\ ResParked /\ H3Parked

\* where the driver goes after a call on the Endpoint
AfterEndpointCall(driver, pc) ==
    IF driver = "run_connection_config"
    THEN IF pc = "recv" THEN "process" ELSE IF pc = "process" THEN "timeout" ELSE "exit"
    ELSE IF pc = "process" THEN "finish" ELSE IF pc = "read" THEN "read" ELSE "process"

EndpointCallPcs == {"recv", "process", "read", "timeout"}

\* The driver calls endpoint.recv, process_connections or on_timeout, and
\* the library runs one callback inside the call.
BorEndpointCallback ==
    /\ drv.pc \in EndpointCallPcs /\ ~drv.st.panicked
    /\ \E ops \in CallbackOps(drv.driver, drv.st) :
          LET s0 == IF drv.pc = "read" THEN read_event_test(drv.st) ELSE drv.st
              s1 == RunOps(s0, ops)
              closes == ops \in {TransportCb_closed_ops, ClientHandler_closed_ops}
          IN drv' = IF drv.pc = "read" /\ s0.done
                    THEN [drv EXCEPT !.st = s0, !.pc = "timeout"]
                    ELSE [drv EXCEPT !.st = [s1 EXCEPT !.cb_ran = TRUE,
                                                       !.closed = @ \/ closes],
                                     !.pc = AfterEndpointCall(drv.driver, drv.pc)]
    /\ UNCHANGED notDrv

\* The call on the Endpoint runs no callback (or the socket would block).
BorEndpointQuiet ==
    /\ drv.pc \in EndpointCallPcs /\ ~drv.st.panicked
    /\ drv' = [drv EXCEPT !.st = IF drv.pc = "read" THEN read_event_test(@) ELSE @,
                          !.pc = IF drv.pc = "read" THEN "timeout"
                                 ELSE AfterEndpointCall(drv.driver, drv.pc)]
    /\ UNCHANGED notDrv

\* open_connection: `if client.finish() { break; }`, then poll and the
\* readable events.
BorFinishTest ==
    /\ drv.pc = "finish" /\ ~drv.st.panicked
    /\ LET s1 == Client_finish(drv.st)
       IN drv' = [drv EXCEPT !.st = s1,
                             !.pc = IF s1.done \/ drv.iter >= MaxDrvIter THEN "returned"
                                    ELSE "read",
                             !.iter = IF s1.done \/ drv.iter >= MaxDrvIter THEN @ ELSE @ + 1]
    /\ UNCHANGED notDrv

\* run_connection_config: the exit conditions, then the sleep or the record
\* (`let s = state.borrow()` to the end of the function).
BorExitTest(hs_due, all_due) ==
    /\ drv.pc = "exit" /\ ~drv.st.panicked
    /\ LET r == run_connection_config_exit(drv.st, hs_due, all_due \/ drv.iter >= MaxDrvIter)
       IN drv' = IF r.brk
                 THEN [drv EXCEPT !.st = RunOps(r.st, <<"borrow", "drop">>),
                                  !.pc = "returned"]
                 ELSE [drv EXCEPT !.st = r.st, !.pc = "recv", !.iter = @ + 1]
    /\ UNCHANGED notDrv

BorNext ==
    \/ BorEndpointCallback
    \/ BorEndpointQuiet
    \/ BorFinishTest
    \/ \E hs_due \in BOOLEAN, all_due \in BOOLEAN : BorExitTest(hs_due, all_due)

SpecBorrow == BorInit /\ [][BorNext]_vars

-----------------------------------------------------------------------------
(* The rotating writer on its own: a caller that opens the writer, writes  *)
(* buffers of every length up to MaxBufLen, and restarts (a new run opens  *)
(* the writer on the files the previous run left).                         *)

\* Byte k of the buffer of write call c; call 0 is the hook's preamble.
Byte(c, k) == <<c, k>>
Preamble == [k \in 1..HdrLen |-> Byte(0, k)]
Buffer(c, n) == [k \in 1..n |-> Byte(c, k)]
IsPreambleByte(b) == b[1] = 0

NoCall ==
    [buf |-> <<>>, ok |-> TRUE, ret |-> 0, before |-> EmptyFs, made |-> FALSE,
     calls |-> <<>>]

RotInit ==
    /\ \E hook \in {<<>>, Preamble} :
          rw = RotatingWriter_new(EmptyFs, MaxBytes, hook)
    /\ rstream = <<>>
    /\ rlast = NoCall
    /\ rcalls = 0
    /\ QlogParked /\ ProbeParked /\ ThrParked /\ DrvParked /\ KlParked /\ SessParked
    /\ ResParked /\ H3Parked

\* One call of RotatingWriter::write with a buffer of n bytes.
RotWrite(n) ==
    /\ rcalls < MaxCalls
    /\ LET buf == Buffer(rcalls + 1, n)
           r == RotatingWriter_write(rw, buf, "none")
       IN /\ rw' = r.w
          /\ rstream' = IF r.ok THEN rstream \o buf ELSE rstream
          /\ rlast' = [buf |-> buf, ok |-> r.ok, ret |-> r.ret,
                       before |-> rw.fs, made |-> TRUE, calls |-> r.calls]
    /\ rcalls' = rcalls + 1
    /\ UNCHANGED <<notRot>>

\* The process ends and a later run opens the writer on the same directory.
RotReopen ==
    /\ rw' = RotatingWriter_new(rw.fs, rw.max_bytes, rw.hook)
    /\ rlast' = NoCall
    /\ UNCHANGED <<rstream, rcalls, notRot>>

RotNext ==
    \/ \E n \in 0..MaxBufLen : RotWrite(n)
    \/ RotReopen

SpecRotate == RotInit /\ [][RotNext]_vars

\* The writer opened on a directory that earlier runs have left: rotated
\* files with any set of suffixes up to MaxSuffix (some may have been
\* removed since), and the base file or not.  The file named n holds one
\* byte of its own.
MaxSuffix == 2     \* highest suffix of a file left by an earlier run

OldByte(n) == <<-1, n>>

OldDir(names) ==
    [dir |-> [n \in names |-> n + 1],
     data |-> [i \in 1..(MaxSuffix + 1) |->
                  IF (i - 1) \in names THEN <<OldByte(i - 1)>> ELSE <<>>]]

RotDirInit ==
    /\ \E names \in SUBSET (0..MaxSuffix) :
          rw = RotatingWriter_new(OldDir(names), MaxBytes, <<>>)
    /\ rstream = <<>>
    /\ rlast = NoCall
    /\ rcalls = 0
    /\ QlogParked /\ ProbeParked /\ ThrParked /\ DrvParked /\ KlParked /\ SessParked
    /\ ResParked /\ H3Parked

SpecRotateDir == RotDirInit /\ [][RotNext]_vars

\* The rotating writer on a filesystem whose calls can fail during a
\* rotation: the rename of the active file, the open of the fresh file, or
\* the hook's on_new_file.  Each is a `?` in rotate, and write's
\* `self.rotate()?` returns the error before write_all.
RotationFaults == {"rename", "open", "hook"}

\* TRUE when the call that fails is one this write would make.
FaultApplies(w, buf, fault) ==
    /\ buf # <<>>
    /\ w.size + Len(buf) > w.max_bytes
    /\ fault = "rename" => Base \in DOMAIN w.fs.dir
    /\ fault = "hook" => w.hook # <<>>

\* One call of RotatingWriter::write with a buffer of n bytes, in which the
\* filesystem call `fault` fails.
RotWriteFault(n, fault) ==
    /\ rcalls < MaxCalls
    /\ LET buf == Buffer(rcalls + 1, n)
           r == RotatingWriter_write(rw, buf, fault)
       IN /\ FaultApplies(rw, buf, fault)
          /\ rw' = r.w
          /\ rstream' = IF r.ok THEN rstream \o buf ELSE rstream
          /\ rlast' = [buf |-> buf, ok |-> r.ok, ret |-> r.ret,
                       before |-> rw.fs, made |-> TRUE, calls |-> r.calls]
    /\ rcalls' = rcalls + 1
    /\ UNCHANGED <<notRot>>

RotFaultNext ==
    \/ \E n \in 0..MaxBufLen : RotWrite(n)
    \/ \E n \in 1..MaxBufLen, fault \in RotationFaults : RotWriteFault(n, fault)
    \/ RotReopen

SpecRotateFaults == RotInit /\ [][RotFaultNext]_vars

\* The same filesystem, on which write_all can also fail after a part of
\* the buffer was written (the disk fills up in the middle of the buffer).
RotWriteShort(n) ==
    /\ rcalls < MaxCalls
    /\ LET buf == Buffer(rcalls + 1, n)
           r == RotatingWriter_write(rw, buf, "short")
       IN /\ rw' = r.w
          /\ rstream' = rstream
          /\ rlast' = [buf |-> buf, ok |-> r.ok, ret |-> r.ret,
                       before |-> rw.fs, made |-> TRUE, calls |-> r.calls]
    /\ rcalls' = rcalls + 1
    /\ UNCHANGED <<notRot>>

RotShortNext ==
    \/ \E n \in 0..MaxBufLen : RotWrite(n)
    \/ \E n \in 1..MaxBufLen, fault \in RotationFaults : RotWriteFault(n, fault)
    \/ \E n \in 2..MaxBufLen : RotWriteShort(n)
    \/ RotReopen

SpecRotateShort == RotInit /\ [][RotShortNext]_vars

-----------------------------------------------------------------------------
(* PerConnKeylog (keylog.rs): the per-connection keylog adapter.  A byte is *)
(* its value; the global sink is the sequence of lines append_line wrote.  *)

KLF == 10          \* b'\n'

\* append_line: an empty line is skipped; io_ok: write_all (and the flush
\* every FLUSH_EVERY lines) succeeded.  forward_line ignores the result.
Keylog_append_line(sink, line, io_ok) ==
    IF line = <<>> THEN sink
    ELSE IF io_ok THEN Append(sink, line) ELSE sink

PerConnKeylog_new == [buf |-> <<>>]

\* `while let Some(pos) = position(b'\n')`: drain(..=pos), forward_line
RECURSIVE KeylogDrain(_, _, _)
KeylogDrain(k, sink, io_ok) ==
    LET pos == FirstIndex(k.buf, KLF)
    IN IF pos = 0 THEN [k |-> k, sink |-> sink]
       ELSE KeylogDrain([k EXCEPT !.buf = SubSeq(@, pos + 1, Len(@))],
                        Keylog_append_line(sink, SubSeq(k.buf, 1, pos), io_ok), io_ok)

\* A write that keeps no unfinished line for the next write.
Mut_PerConnKeylog_write_drops_tail(k, sink, data, io_ok) ==
    LET r == KeylogDrain([k EXCEPT !.buf = @ \o data], sink, io_ok)
    IN [r EXCEPT !.k.buf = <<>>]

PerConnKeylog_write(k, sink, data, io_ok) ==
    KeylogDrain([k EXCEPT !.buf = @ \o data], sink, io_ok)

\* A flush that forwards the unfinished tail too.
Mut_PerConnKeylog_flush_keeps_tail(k, sink, io_ok) ==
    LET r == KeylogDrain(k, sink, io_ok)
    IN [k |-> [r.k EXCEPT !.buf = <<>>],
        sink |-> Keylog_append_line(r.sink, r.k.buf, io_ok)]

PerConnKeylog_flush(k, sink, io_ok) ==
    LET r == KeylogDrain(k, sink, io_ok)
    IN [r EXCEPT !.k.buf = <<>>]

-----------------------------------------------------------------------------
(* One connection's keylog adapter and qlog adapter, fed by the QUIC       *)
(* library in chunks that may stop in the middle of a line or a frame, and *)
(* flushed and dropped at any point.  kl.kin and kl.qin keep what the      *)
(* library wrote, cut into the stretches between two flushes; kl.ksink and *)
(* kl.qsent keep what reached append_line and append_record.               *)

MaxKlOps == 4      \* calls on the two adapters per behaviour

KeylogChunks == {<<65>>, <<65, 66>>, <<65, KLF>>, <<KLF>>, <<66, KLF, 65>>}

\* whole frames, the head of one, a closing LF, bytes that belong to no
\* frame, and a frame followed by the head of the next
SqlogFrames ==
    {Frame(HeaderJson("client qlog")), Frame(Junk(FALSE)),
     Frame(EventJson(NoGid, 0, <<"quic", ":", "packet_sent">>)),
     Frame(EventJson(NoGid, MaxTime, <<"recovery", ":", "metrics_updated">>))}

SqlogChunks ==
    SqlogFrames \cup {<<RS, Junk(FALSE)>>, <<LF>>, <<Junk(FALSE)>>}
    \cup {Frame(EventJson(NoGid, 0, <<"quic", ":", "packet_sent">>))
            \o <<RS, EventJson(NoGid, 1, <<"quic", ":", "packet_sent">>)>>}

KlInit ==
    /\ RotParked /\ QlogParked /\ ProbeParked /\ ThrParked /\ DrvParked /\ SessParked
    /\ ResParked /\ H3Parked
    /\ kl = [k |-> PerConnKeylog_new, kalive |-> TRUE, kin |-> << <<>> >>, ksink |-> <<>>,
             klost |-> FALSE,
             q |-> PerConnSqlog_new(1), qalive |-> TRUE, qin |-> << <<>> >>, qsent |-> <<>>,
             qlost |-> FALSE,
             m |-> QlogMux_new(EmptyFs), ops |-> 0]

AppendLast(segs, data) == [segs EXCEPT ![Len(segs)] = @ \o data]

\* The library writes `data` to the keylog writer.
KeylogWrite(data, io_ok) ==
    /\ kl.ops < MaxKlOps /\ kl.kalive
    /\ LET r == PerConnKeylog_write(kl.k, kl.ksink, data, io_ok)
       IN kl' = [kl EXCEPT !.k = r.k, !.ksink = r.sink, !.kin = AppendLast(@, data),
                           !.klost = @ \/ ~io_ok, !.ops = @ + 1]
    /\ UNCHANGED notKl

\* Write::flush on the keylog writer, or its drop (Drop calls flush).
KeylogFlush(drop, io_ok) ==
    /\ kl.ops < MaxKlOps /\ kl.kalive
    /\ LET r == PerConnKeylog_flush(kl.k, kl.ksink, io_ok)
       IN kl' = [kl EXCEPT !.k = r.k, !.ksink = r.sink, !.kin = Append(@, <<>>),
                           !.kalive = ~drop, !.klost = @ \/ ~io_ok, !.ops = @ + 1]
    /\ UNCHANGED notKl

\* The library writes `data` to the qlog writer.
SqlogWrite(data) ==
    /\ kl.ops < MaxKlOps /\ kl.qalive
    /\ LET r == PerConnSqlog_write(kl.q, kl.m, data)
       IN kl' = [kl EXCEPT !.q = r.a, !.m = r.m, !.qsent = @ \o r.sent,
                           !.qin = AppendLast(@, data), !.ops = @ + 1]
    /\ UNCHANGED notKl

\* Write::flush on the qlog writer, or its drop (Drop calls flush).
SqlogFlush(drop) ==
    /\ kl.ops < MaxKlOps /\ kl.qalive
    /\ LET r == PerConnSqlog_flush(kl.q, kl.m)
       IN kl' = [kl EXCEPT !.q = r.a, !.m = r.m, !.qsent = @ \o r.sent,
                           !.qin = Append(@, <<>>), !.qalive = ~drop, !.ops = @ + 1]
    /\ UNCHANGED notKl

KlNext ==
    \/ \E data \in KeylogChunks, io_ok \in BOOLEAN : KeylogWrite(data, io_ok)
    \/ \E drop \in BOOLEAN, io_ok \in BOOLEAN : KeylogFlush(drop, io_ok)
    \/ \E data \in SqlogChunks : SqlogWrite(data)
    \/ \E drop \in BOOLEAN : SqlogFlush(drop)

SpecAdapters == KlInit /\ [][KlNext]_vars

-----------------------------------------------------------------------------
(* The keylog sink shared by the connections of several workers.  Each     *)
(* connection's adapter drains its buffer line by line, and append_line    *)
(* takes the sink's mutex for one line: the rotation test of               *)
(* RotatingWriter::write, the file's write_all (which the system may       *)
(* perform in more than one write) and the counters.  kl holds the sink,   *)
(* the mutex's holder and each connection's adapter and position.          *)

KsMaxBytes == 4     \* the sink's max_bytes
KsMaxChunk == 3     \* bytes of one write call of the library
KsFlushEvery == 2   \* FLUSH_EVERY

KsConns == {1, 2}

\* Byte k of line j of connection c.
KsByte(c, j, k) == 100 * c + 10 * j + k
KsLine(c, j) == IF j = 1 THEN <<KsByte(c, 1, 1), KLF>>
                ELSE <<KsByte(c, j, 1), KsByte(c, j, 2), KLF>>
\* What the library writes on connection c: two lines.
KsStream(c) == KsLine(c, 1) \o KsLine(c, 2)

NoHolder == 0

\* A mutex that is free to everyone.
Mut_MutexFree_always(holder) == TRUE

\* sink.inner.lock(): the mutex can be taken when nobody holds it
MutexFree(holder) == holder = NoHolder

\* The first part of RotatingWriter::write: the rotation before the write.
RotatingWriter_write_prepare(w, buf) ==
    IF w.size + Len(buf) > w.max_bytes THEN RotatingWriter_rotate(w, "none").w ELSE w

\* The end of append_line: the writer's size, the line counter and the
\* flush every FLUSH_EVERY lines (a flush of a File writes nothing).
KeylogSink_line_written(g, line) ==
    [writer |-> [g.writer EXCEPT !.size = @ + Len(line)],
     since_flush |-> IF g.since_flush + 1 >= KsFlushEvery THEN 0 ELSE g.since_flush + 1]

KsIdle == [buf |-> <<>>, pos |-> 0, pc |-> "idle", line |-> <<>>, off |-> 0, sent |-> 0]

KsInit ==
    /\ kl = [g |-> [writer |-> RotatingWriter_new(EmptyFs, KsMaxBytes, <<>>),
                    since_flush |-> 0],
             holder |-> NoHolder,
             conn |-> [c \in KsConns |-> KsIdle]]
    /\ RotParked /\ QlogParked /\ ProbeParked /\ ThrParked /\ DrvParked /\ SessParked
    /\ ResParked /\ H3Parked

\* PerConnKeylog::write is called with the next n bytes of the stream.
KsWrite(c, n) ==
    /\ kl.conn[c].pc = "idle"
    /\ kl.conn[c].pos + n <= Len(KsStream(c))
    /\ kl' = [kl EXCEPT !.conn[c].buf =
                            @ \o SubSeq(KsStream(c), kl.conn[c].pos + 1, kl.conn[c].pos + n),
                        !.conn[c].pos = @ + n,
                        !.conn[c].pc = "loop"]
    /\ UNCHANGED notKl

\* The `while let Some(pos)` test: no LF, write returns; else the line is
\* drained and handed to forward_line.
KsLoop(c) ==
    /\ kl.conn[c].pc = "loop"
    /\ LET pos == FirstIndex(kl.conn[c].buf, KLF)
       IN kl' = IF pos = 0 THEN [kl EXCEPT !.conn[c].pc = "idle"]
                ELSE [kl EXCEPT !.conn[c].line = SubSeq(kl.conn[c].buf, 1, pos),
                                !.conn[c].buf = SubSeq(@, pos + 1, Len(@)),
                                !.conn[c].pc = "lock"]
    /\ UNCHANGED notKl

\* append_line takes the mutex and enters RotatingWriter::write.
KsLock(c) ==
    /\ kl.conn[c].pc = "lock"
    /\ MutexFree(kl.holder)
    /\ kl' = [kl EXCEPT !.holder = c,
                        !.g.writer = RotatingWriter_write_prepare(@, kl.conn[c].line),
                        !.conn[c].pc = "write",
                        !.conn[c].off = 0]
    /\ UNCHANGED notKl

\* self.file.write_all(buf) in two writes: all bytes but the last, then the
\* last; after the last, append_line finishes and the guard is dropped.
KsFileWrite(c) ==
    /\ kl.conn[c].pc = "write"
    /\ LET line == kl.conn[c].line
           off == kl.conn[c].off
           upto == IF off = 0 THEN Len(line) - 1 ELSE Len(line)
           k1 == [kl EXCEPT !.g.writer.fs =
                                AppendBytes(@, kl.g.writer.file, SubSeq(line, off + 1, upto)),
                            !.conn[c].off = upto]
       IN kl' = IF upto < Len(line) THEN k1
                ELSE [k1 EXCEPT !.g = KeylogSink_line_written(@, line),
                                !.holder = NoHolder,
                                !.conn[c].pc = "loop",
                                !.conn[c].line = <<>>,
                                !.conn[c].off = 0,
                                !.conn[c].sent = @ + 1]
    /\ UNCHANGED notKl

KsNext ==
    \/ \E c \in KsConns, n \in 1..KsMaxChunk : KsWrite(c, n)
    \/ \E c \in KsConns : KsLoop(c)
    \/ \E c \in KsConns : KsLock(c)
    \/ \E c \in KsConns : KsFileWrite(c)

SpecKeylogSink == KsInit /\ [][KsNext]_vars

-----------------------------------------------------------------------------
(* The session ticket file <session_root>/<shard(host)>/<host>.session of  *)
(* one host (quic/quic.rs).  Handlers of attempts to that host run on the  *)
(* pool's threads: the host may stand more than once in the domain list,   *)
(* which main hands to par_iter as it was read.  fs::write is File::create *)
(* (create, truncate) followed by write_all, which writes the bytes in one *)
(* or more write calls at the handle's own offset; fs::read returns the    *)
(* bytes the file holds when it is read.                                   *)

TicketLen == 2     \* bytes of a session ticket
MaxTickets == 2    \* tickets the library exposes per behaviour

Absent == "absent"

\* byte k of ticket t
Ticket(t) == [k \in 1..TicketLen |-> <<t, k>>]

NoRead == [made |-> FALSE, ok |-> FALSE, bytes |-> <<>>]

SessIdle == [pc |-> "idle", ticket |-> 0, pos |-> 0]

SessInit ==
    /\ RotParked /\ QlogParked /\ ProbeParked /\ ThrParked /\ DrvParked /\ KlParked
    /\ ResParked /\ H3Parked
    /\ sess = [file |-> Absent, wr |-> [w \in Workers |-> SessIdle],
               seen |-> NoRead, next |-> 1]

\* pwrite: the bytes go to the handle's offset, the file grows as needed
WriteAt(file, pos, b) ==
    IF pos < Len(file) THEN [file EXCEPT ![pos + 1] = b] ELSE Append(file, b)

\* on_conn_established / on_conn_closed: conn.session() is Some, fs::write
\* opens the file: it is created, or truncated to no bytes.
SessOpen(w) ==
    /\ sess.wr[w].pc = "idle" /\ sess.next <= MaxTickets
    /\ sess' = [sess EXCEPT !.file = <<>>,
                            !.wr[w] = [pc |-> "writing", ticket |-> sess.next, pos |-> 0],
                            !.next = @ + 1]
    /\ UNCHANGED notSess

\* one write call of write_all takes n of the bytes left
SessWriteSome(w, n) ==
    /\ sess.wr[w].pc = "writing"
    /\ sess.file # Absent
    /\ n >= 1 /\ sess.wr[w].pos + n <= TicketLen
    /\ LET wr == sess.wr[w]
           RECURSIVE Put(_, _)
           Put(f, i) == IF i > n THEN f
                        ELSE Put(WriteAt(f, wr.pos + i - 1, Ticket(wr.ticket)[wr.pos + i]), i + 1)
       IN sess' = [sess EXCEPT !.file = Put(sess.file, 1),
                               !.wr[w] = IF wr.pos + n = TicketLen THEN SessIdle
                                         ELSE [wr EXCEPT !.pos = @ + n]]
    /\ UNCHANGED notSess

\* a write call fails (disk full, I/O error): fs::write returns Err, which
\* on_conn_established drops and on_conn_closed logs
SessWriteErr(w) ==
    /\ sess.wr[w].pc = "writing"
    /\ sess' = [sess EXCEPT !.wr[w] = SessIdle]
    /\ UNCHANGED notSess

\* on_conn_created: fs::read(&session_path); Ok goes to conn.set_session
SessRead(w) ==
    /\ sess.wr[w].pc = "idle"
    /\ sess' = [sess EXCEPT !.seen =
                    IF sess.file = Absent THEN [made |-> TRUE, ok |-> FALSE, bytes |-> <<>>]
                    ELSE [made |-> TRUE, ok |-> TRUE, bytes |-> sess.file]]
    /\ UNCHANGED notSess

SessNext ==
    \/ \E w \in Workers : SessOpen(w)
    \/ \E w \in Workers, n \in 1..TicketLen : SessWriteSome(w, n)
    \/ \E w \in Workers : SessWriteErr(w)
    \/ \E w \in Workers : SessRead(w)

SpecSession == SessInit /\ [][SessNext]_vars

-----------------------------------------------------------------------------
(* Properties of the rotating writer *)

ActiveBytes == FileBytes(rw.fs, Base)
NumberedNames(fs) == {k \in DOMAIN fs.dir : k > 0}

RECURSIVE Ascending(_)
Ascending(S) ==
    IF S = {} THEN <<>>
    ELSE LET m == CHOOSE x \in S : \A y \in S : x <= y
         IN <<m>> \o Ascending(S \ {m})

Reverse(s) == [i \in 1..Len(s) |-> s[Len(s) + 1 - i]]

ConcatFiles(fs, names) == Flatten([i \in 1..Len(names) |-> FileBytes(fs, names[i])])

\* Decoding by the format: the preambles are not part of the logical stream.
IsRecordByte(b) == ~IsPreambleByte(b)
Decode(bytes) == SelectSeq(bytes, IsRecordByte)

BytesOf(s) == {s[i] : i \in 1..Len(s)}
CallsIn(s) == {s[i][1] : i \in 1..Len(s)} \ {0}

\* C6: every non-empty buffer passed to write, also one longer than
\* max_bytes, is accepted in full (the call succeeds and returns the buffer's
\* length) and its bytes lie contiguously at the end of the file that is
\* active when the call returns, and in no other file.
C6_WholeBufferInOneFile ==
    (rlast.made /\ rlast.buf # <<>>) =>
        /\ rlast.ok
        /\ rlast.ret = Len(rlast.buf)
        /\ Base \in DOMAIN rw.fs.dir
        /\ Len(ActiveBytes) >= Len(rlast.buf)
        /\ Suffix(ActiveBytes, Len(rlast.buf)) = rlast.buf
        /\ BytesOf(SubSeq(ActiveBytes, 1, Len(ActiveBytes) - Len(rlast.buf)))
              \cap BytesOf(rlast.buf) = {}
        /\ \A ino \in DOMAIN rw.fs.data :
              ino # rw.fs.dir[Base] => BytesOf(rw.fs.data[ino]) \cap BytesOf(rlast.buf) = {}

\* A buffer longer than max_bytes was written after a rotation away from a
\* file that already held bytes.
C6_Witness ==
    /\ rlast.made /\ rlast.ok
    /\ Len(rlast.buf) > rw.max_bytes
    /\ rw.fs.dir[Base] # rlast.before.dir[Base]
    /\ CallsIn(FileBytes(rlast.before, Base)) # {}

PreambleCount(b) == Len(SelectSeq(b, IsPreambleByte))
Rotated(calls) == \E i \in 1..Len(calls) : calls[i][1] = "open"

C27_State == rw.next_index = SeqMax(NumberedNames(rw.fs)) + 1

C27_Step ==
    /\ rw'.next_index =
          IF rlast'.made /\ Rotated(rlast'.calls) /\ rcalls' # rcalls
          THEN rw.next_index + 1 ELSE rw.next_index
    /\ \A k \in NumberedNames(rw.fs) :
          /\ k \in DOMAIN rw'.fs.dir
          /\ rw'.fs.dir[k] = rw.fs.dir[k]
          /\ FileBytes(rw'.fs, k) = FileBytes(rw.fs, k)
    /\ \A i \in 1..Len(rlast'.calls) : rlast'.calls[i][1] # "remove"

C27_NextIndexAboveEverySuffix == []C27_State /\ [][C27_Step]_vars

\* The writer was opened on a directory that held only the rotated file
\* with the suffix MaxSuffix, and has rotated twice since.
C27_Witness ==
    /\ NumberedNames(rw.fs) = {MaxSuffix, MaxSuffix + 1, MaxSuffix + 2}
    /\ FileBytes(rw.fs, MaxSuffix) = <<OldByte(MaxSuffix)>>
    /\ rw.next_index = MaxSuffix + 3

\* Every byte of every file of the directory, named or not.
AllFileBytes(fs) == UNION {{fs.data[i][k] : k \in 1..Len(fs.data[i])} : i \in DOMAIN fs.data}

\* The write that has just returned failed in its rotation.
RotationFailed == rlast.made /\ ~rlast.ok

C28_State ==
    RotationFailed =>
        /\ rlast.ret = 0
        /\ \A k \in 1..Len(rlast.buf) : rlast.buf[k] \notin AllFileBytes(rw.fs)

C28_Step ==
    (rcalls' = rcalls + 1 /\ rlast'.ok /\ rlast'.buf # <<>>) =>
        /\ Base \in DOMAIN rw'.fs.dir
        /\ rw'.file = rw'.fs.dir[Base]
        /\ \A n \in NumberedNames(rw.fs) \cap NumberedNames(rw'.fs) :
              rw'.fs.dir[n] = rw.fs.dir[n] =>
                 FileBytes(rw'.fs, n) = FileBytes(rw.fs, n)

\* C28: a write whose rotation fails (the rename, the open of the fresh file
\* or the hook) returns the error with no byte of its buffer in any file, and
\* every successful write, those after such a failure included, is appended
\* to the file named <base>: the writer's handle is the file at the base
\* path, and no rotated file that keeps its name gains a byte.
C28_RotationErrorKeepsWriterOnBase == []C28_State /\ [][C28_Step]_vars

\* C25: in every rotation the writer's handle to the active file is closed
\* before that file is renamed: each rename of an inode has a close of the
\* same inode earlier in the calls of that rotation.
C25_CloseBeforeRename ==
    \A i \in 1..Len(rlast.calls) :
        rlast.calls[i][1] = "rename" =>
            \E j \in 1..(i - 1) : rlast.calls[j] = <<"close", rlast.calls[i][2]>>

-----------------------------------------------------------------------------
(* Properties of the qlog output *)

QlogFs == mux.bufw.inner.fs

\* Everything written so far, in write order: the rotated files by ascending
\* suffix, the active file, then what the BufWriter still holds.
QlogOutput ==
    ConcatFiles(QlogFs, Ascending(NumberedNames(QlogFs)) \o <<Base>>) \o mux.bufw.buf

HookHeader == QlogHeaderHook_on_new_file

IsEventOf(g, b) == b.k = "json" /\ b.g = g /\ b.t # NoTime
TimesOf(g) ==
    LET Mine(b) == IsEventOf(g, b)
        evs == SelectSeq(QlogOutput, Mine)
    IN [i \in 1..Len(evs) |-> evs[i].t]

\* C8: for every group_id the time values of the events in the output are
\* strictly increasing in write order.
C8_TimesStrictlyIncreasePerGroup ==
    \A g \in Conns :
        LET ts == TimesOf(g)
        IN \A i \in 1..Len(ts), j \in 1..Len(ts) : i < j => ts[i] < ts[j]

\* A file's bytes are records from their start: the first byte is RS and
\* every LF but the last byte is followed by RS.
StartsRecords(b) ==
    /\ b # <<>> => b[1] = RS
    /\ \A i \in 1..(Len(b) - 1) : b[i] = LF => b[i + 1] = RS

\* C23: no record spans two files.  Every rotated file ends with the LF
\* that closes its last record, and every file, rotated or active, holds
\* from its first byte on nothing but records (no tail of a record that
\* began in the file before).
C23_NoRecordSpansFiles ==
    \A name \in DOMAIN QlogFs.dir :
        LET b == FileBytes(QlogFs, name)
        IN /\ StartsRecords(b)
           /\ (name # Base /\ b # <<>>) => b[Len(b)] = LF

\* C19: once the process has exited, every record the mux accepted is in
\* the qlog files: the mux's buffer holds nothing that was not written.
C19_AcceptedRecordsInFilesAfterExit ==
    "exited" \in qseen => mux.bufw.buf = <<>>

-----------------------------------------------------------------------------
(* Properties of the probe *)

\* The outcomes the specification classifies as retryable; every other
\* terminal state is non-retryable.
IsRetryable(kind) ==
    kind \in {"conn_refused", "host_unreachable", "handshake_timeout", "overall_timeout"}

\* C1: for every connection at most one summary record is written under its
\* trace_id over the whole run, counting the driver's handler and the
\* application's callback.
C1_AtMostOneRecordPerConnection ==
    \A key \in Keys : recorder.lines[key] <= 1

\* C2: once an attempt of a host has ended with a non-retryable outcome (a
\* success or a non-retryable failure), no further attempt is started for
\* that host: an attempt is only ever in progress after no attempt or after
\* a retryable one.
C2_NoAttemptAfterNonRetryable ==
    \A h \in Hosts :
        (hst[h].cur # None /\ hst[h].prev # None) => IsRetryable(hst[h].prev.kind)

\* C3: an attempt that ended with a retryable outcome is followed by the next
\* candidate of the profile, or by the next profile when no candidate is
\* left: probe does not return Ok from a retryable outcome while a candidate
\* or a later profile remains.
C3_RetryableMovesOn ==
    \A h \in Hosts :
        (hst[h].pc = "done" /\ hst[h].result = "ok" /\ hst[h].prev # None
            /\ IsRetryable(hst[h].prev.kind)) =>
        /\ hst[h].prev.pos = hst[h].prev.n
        /\ hst[h].prev.idx = Len(Profiles)

\* C4: whenever an attempt starts for a host, no attempt of that host is in
\* progress (the previous one has returned); it is the first candidate of
\* the first profile if the host had no attempt yet, otherwise the next
\* candidate of the same profile or, when that profile's candidates are
\* used up, the first candidate of the next profile; and the address is the
\* one the resolver returned at that position.
AttemptStarts(h) == hst[h].pc # "loop" /\ hst'[h].pc = "loop"

C4_SequentialInOrder ==
    [][\A h \in Hosts : AttemptStarts(h) =>
          LET c == hst'[h].cur
              p == hst[h].prev
          IN /\ hst[h].cur = None
             /\ c.addr = hst[h].targets[c.pos][2]
             /\ p = None => (c.idx = 1 /\ c.pos = 1)
             /\ p # None =>
                   \/ c.idx = p.idx /\ c.pos = p.pos + 1
                   \/ c.idx = p.idx + 1 /\ c.pos = 1
                        /\ \E addrs \in Lookups :
                              LET r == resolve_targets(addrs, Profiles[p.idx])
                              IN r.ok /\ p.pos = Len(r.out) /\ r.out[p.pos][2] = p.addr]_vars

\* A host is in its third attempt, the first candidate of the second
\* profile after both candidates of the first, while the other host has an
\* attempt in progress too.
C4_Witness ==
    \E h \in Hosts, g \in Hosts :
        /\ h # g
        /\ hst[h].pc = "loop" /\ hst[h].natt = 3
        /\ hst[h].cur.idx = 2 /\ hst[h].prev.idx = 1 /\ hst[h].prev.pos = 2
        /\ hst[g].pc = "loop"

ErrHosts == {h \in Hosts : hst[h].result = "err"}

\* C13: every host is handed to probe at most once, every host that is
\* being handled has one worker, which stays its worker; and when the pool
\* has finished every host was handed over exactly once, processed equals
\* the number of hosts and err_cnt the number of hosts whose probe call
\* returned an error.
C13_State ==
    /\ \A h \in Hosts :
          /\ hst[h].takes <= 1
          /\ hst[h].pc # "idle" => hst[h].worker \in Workers /\ hst[h].takes = 1
    /\ \A h \in Hosts, g \in Hosts :
          (h # g /\ h \in Running /\ g \in Running) => hst[h].worker # hst[g].worker
    /\ pool = "finished" =>
          /\ \A h \in Hosts : hst[h].pc = "done" /\ hst[h].takes = 1
          /\ processed = NHosts
          /\ err_cnt = Cardinality(ErrHosts)

WorkerKept == \A h \in Hosts : hst[h].pc # "idle" => hst'[h].worker = hst[h].worker

C13_EachHostOnceCountersMatch == []C13_State /\ [][WorkerKept]_vars

\* The pool has finished with one host in error and one not, handled by
\* different workers.
C13_Witness ==
    /\ pool = "finished"
    /\ err_cnt = 1
    /\ \E h \in Hosts, g \in Hosts :
          /\ hst[h].result = "err" /\ hst[g].result = "ok"
          /\ hst[h].worker # hst[g].worker

\* C14: a panic of a worker is isolated to its host: the other hosts are
\* still handled and the run completes, that is, the parallel loop returns
\* to main and main goes on to its end.
C14_PanicIsolated ==
    pool # "running" => (pool = "finished" /\ \A h \in Hosts : Ended(h))

HandlerRan(h) == hst[h].pc = "loop" /\ ~hst[h].finish /\ hst'[h].finish

C16_Step ==
    \A h \in Hosts :
        /\ HandlerRan(h) =>
              /\ hst'[h].cur.kind \in ClosedKinds
              /\ [hst'[h] EXCEPT !.finish = FALSE, !.cur.kind = "open"] = hst[h]
        /\ (hst[h].result # "err" /\ hst'[h].result = "err") => hst[h].pc = "resolve"

EntersSleep(h) == hst[h].pc # "sleep" /\ hst'[h].pc = "sleep"

ProfileFailed(h) ==
    /\ hst[h].pc = "loop" /\ ~hst[h].finish
    /\ hst'[h].pc \notin {"loop", "panicked"}
    /\ hst[h].pos = Len(hst[h].targets)

C21_Step ==
    \A h \in Hosts :
        /\ EntersSleep(h) <=>
              (ProfileFailed(h) /\ hst[h].idx < Len(Profiles) /\ delay_ms > 0)
        /\ (hst[h].pc = "sleep" /\ hst'[h].pc \notin {"sleep", "panicked"}) =>
              (hst'[h].pc = "resolve" /\ hst'[h].idx = hst[h].idx + 1)

-----------------------------------------------------------------------------
(* Properties of the resolver *)

ClassOf(a) == a[1]
HasClass(addrs, c) == \E i \in 1..Len(addrs) : ClassOf(addrs[i]) = c
\* the first address of class c in a list that has one
FirstOfClass(addrs, c) ==
    addrs[CHOOSE i \in 1..Len(addrs) :
            ClassOf(addrs[i]) = c /\ \A j \in 1..(i - 1) : ClassOf(addrs[j]) # c]

\* C22: on the ordered list of a lookup, resolve_targets returns for Auto
\* one pair with the first address; for IPv4 or IPv6 one pair with the
\* first address of that class, or an error if there is none; for Both the
\* first IPv4 address then the first IPv6 address (those that exist), or an
\* error if there is neither; the tag of every pair is its address's class.
\* A failed lookup is an error.
C22_ResolveTargets ==
    rsv.called =>
        LET l == rsv.addrs
            f == rsv.family
            Pair(c) == <<c, FirstOfClass(l, c)>>
        IN /\ l = LookupFailed => ~rsv.ok
           /\ (l # LookupFailed /\ f = "auto") =>
                 IF l = <<>> THEN ~rsv.ok
                 ELSE rsv.ok /\ rsv.out = << <<ClassOf(l[1]), l[1]>> >>
           /\ (l # LookupFailed /\ f \in {"ipv4", "ipv6"}) =>
                 IF HasClass(l, f) THEN rsv.ok /\ rsv.out = <<Pair(f)>>
                 ELSE ~rsv.ok
           /\ (l # LookupFailed /\ f = "both") =>
                 IF HasClass(l, "ipv4") /\ HasClass(l, "ipv6")
                 THEN rsv.ok /\ rsv.out = <<Pair("ipv4"), Pair("ipv6")>>
                 ELSE IF HasClass(l, "ipv4") THEN rsv.ok /\ rsv.out = <<Pair("ipv4")>>
                 ELSE IF HasClass(l, "ipv6") THEN rsv.ok /\ rsv.out = <<Pair("ipv6")>>
                 ELSE ~rsv.ok
           /\ \A i \in 1..Len(rsv.out) : rsv.out[i][1] = ClassOf(rsv.out[i][2])

\* Both was asked of a list that starts with two IPv6 addresses and holds
\* two IPv4 addresses after them.
C22_Witness ==
    /\ rsv # <<>> /\ rsv.called /\ rsv.ok /\ rsv.family = "both"
    /\ Len(rsv.addrs) = 3 /\ ClassOf(rsv.addrs[1]) = "ipv6"
    /\ rsv.addrs[2] = <<"ipv4", "b">> /\ rsv.addrs[3] = <<"ipv4", "a">>
    /\ Len(rsv.out) = 2

-----------------------------------------------------------------------------
(* Properties of the rate limiter *)

\* C5: with rps > 0 the calls of until_ready that return within any window
\* of one second never number more than burst + rps (burst taken as the
\* bucket's capacity max(burst, 1), the larger of the two readings).
C5_AtMostBurstPlusRpsPerSecond ==
    rl.inner # None =>
        \A s \in 0..MaxTick :
            PassesIn(s, s + TicksPerSec - 1) <= rl.inner.burst + rl.inner.rps

-----------------------------------------------------------------------------
(* Properties of the driver loop *)

\* C11: no attempt keeps running beyond the first loop tick after its
\* overall deadline: a loop whose exit test has run at or after the overall
\* deadline has returned.
C11_ExitsByOverallDeadline ==
    drv.pc = "loop" => drv.last_check < OverallDeadline

\* The terminal state of a returned attempt.
Terminal(d) ==
    IF d.ret = "err" THEN d.errkind
    ELSE IF d.error = "handshake timeout" \/ d.closed = "handshake_timeout"
         THEN "handshake_timeout"
    ELSE IF d.error = "overall timeout" THEN "overall_timeout"
    ELSE IF d.error # "none" THEN "app_error"
    ELSE IF d.hs_ok /\ d.closed \in {"no", "app_close"} THEN "success"
    ELSE "transport_error"

\* What the attempt's outcome is to its caller: the ProbeOutcome that
\* run_connection_config returns (none with Err); for open_connection what
\* h3::probe does with the result (Err: next candidate, Ok: stop).
OutcomeOf(d) ==
    IF d.driver = "run_connection_config" THEN d.outcome
    ELSE IF d.ret = "err" THEN "retryable" ELSE "nonretryable"

\* C12: a returned attempt's outcome is retryable exactly when its terminal
\* state is connection refused, host unreachable, handshake timeout or
\* overall timeout.
C12_RetryableIffListed ==
    drv.pc = "returned" =>
        (OutcomeOf(drv) = "retryable" <=> IsRetryable(Terminal(drv)))


\* The step in which the loop's exit test ends the attempt with a record.
DrvExitStep == drv.pc = "loop" /\ drv'.pc = "returned" /\ drv'.ret = "ok"

C32_Step ==
    DrvExitStep =>
        /\ drv.done => drv'.error = drv.error
        /\ drv'.error = "handshake timeout" =>
              ~drv.done /\ ~drv.hs_ok /\ drv.now >= HsDeadline
        /\ drv'.error = "overall timeout" =>
              /\ ~drv.done /\ drv.now >= OverallDeadline
              /\ drv.hs_ok \/ drv.now < HsDeadline

\* C32: the exit test takes `done` first, then the handshake deadline while
\* the handshake has not completed, then the overall deadline: an attempt
\* that ends with done set keeps the error it had (no timeout is recorded,
\* whatever the clock reads); a handshake timeout is recorded only with done
\* unset and the handshake not completed, an overall timeout only with done
\* unset and the handshake check not applicable; no record ever holds a
\* handshake timeout together with a completed handshake.
C32_DoneThenHandshakeThenOverall ==
    /\ [](drv.error = "handshake timeout" => ~drv.hs_ok)
    /\ [][C32_Step]_vars

\* The application is done and both deadlines have passed when the exit
\* test runs: the attempt has ended with no error.
C32_Witness ==
    /\ drv.driver = "run_connection_config"
    /\ drv.pc = "returned" /\ drv.ret = "ok"
    /\ drv.done /\ drv.hs_ok /\ drv.closed = "no"
    /\ drv.last_check >= OverallDeadline
    /\ drv.error = "none"

\* C33: the record run_connection_config builds holds no error only when
\* the handshake completed and the application signalled done; a record of
\* a connection whose handshake did not complete holds an error.
C33_NoErrorOnlyAfterHandshakeAndDone ==
    (drv.driver = "run_connection_config" /\ drv.pc = "returned" /\ drv.ret = "ok") =>
        /\ drv.error = "none" => drv.hs_ok /\ drv.done
        /\ ~drv.hs_ok => drv.error # "none"

-----------------------------------------------------------------------------
(* Properties of the per-connection adapters *)

RECURSIVE IsSubseq(_, _)
IsSubseq(s, t) ==
    IF s = <<>> THEN TRUE
    ELSE IF t = <<>> THEN FALSE
    ELSE IF Head(s) = Head(t) THEN IsSubseq(Tail(s), Tail(t))
    ELSE IsSubseq(s, Tail(t))

LastIndex(s, b) == SeqMax({i \in 1..Len(s) : s[i] = b})

\* a stretch of input without its unterminated tail
UpToLast(s, b) == SubSeq(s, 1, LastIndex(s, b))

RECURSIVE Completed(_, _)
Completed(segs, b) ==
    IF segs = <<>> THEN <<>> ELSE UpToLast(Head(segs), b) \o Completed(Tail(segs), b)

\* a flush or a drop found an unterminated tail in the stretch before it
TailDiscarded(segs, b) ==
    \E i \in 1..(Len(segs) - 1) : LastIndex(segs[i], b) < Len(segs[i])

IsKeylogLine(l) ==
    /\ l # <<>> /\ l[Len(l)] = KLF
    /\ \A i \in 1..(Len(l) - 1) : l[i] # KLF

IsSqlogFrame(f) ==
    /\ Len(f) >= 2 /\ f[1] = RS /\ f[Len(f)] = LF
    /\ \A i \in 1..(Len(f) - 1) : f[i] # LF

\* what forward_frame leaves of a byte: group_id and time may be rewritten
Kept(tok) == <<tok.k, tok.hdr, tok.n, tok.title>>
KeptOf(s) == [i \in 1..Len(s) |-> Kept(s[i])]

\* the time values of the frames the qlog adapter parsed and forwarded, in
\* order (a record that did not parse is forwarded as it came and has none)
HasTime(rec) == Len(rec) = 3 /\ rec[2].k = "json" /\ rec[2].t # NoTime
SentTimes ==
    LET evs == SelectSeq(kl.qsent, HasTime)
    IN [i \in 1..Len(evs) |-> evs[i][2].t]

\* C24: the time values of the frames one adapter forwards are strictly
\* increasing in forwarding order, and none is above the adapter's last_t,
\* which also counts the frames that minimisation dropped.
C24_AdapterTimesStrictlyIncrease ==
    /\ \A i \in 1..Len(SentTimes), j \in 1..Len(SentTimes) :
          i < j => SentTimes[i] < SentTimes[j]
    /\ \A i \in 1..Len(SentTimes) : SentTimes[i] <= kl.q.last_t

\* The library wrote time 0 three times with a dropped frame of time
\* MaxTime in between: the second frame went out as 1, the one after the
\* dropped frame as MaxTime + 1.
C24_Witness ==
    /\ kl # <<>>
    /\ SentTimes = <<0, 1, MaxTime + 1>>

\* C17: what the keylog adapter and the qlog adapter forward, in write, in
\* flush and in drop, is complete lines (ending in LF, no LF inside) and
\* complete frames (RS first, LF last, no LF inside), taken in order from
\* the input without its unterminated tails; no byte of a tail is forwarded.
C17_OnlyCompleteUnitsForwarded ==
    /\ \A i \in 1..Len(kl.ksink) : IsKeylogLine(kl.ksink[i])
    /\ IsSubseq(Flatten(kl.ksink), Completed(kl.kin, KLF))
    /\ ~kl.klost => Flatten(kl.ksink) = Completed(kl.kin, KLF)
    /\ \A i \in 1..Len(kl.qsent) : IsSqlogFrame(kl.qsent[i])
    /\ IsSubseq(KeptOf(Flatten(kl.qsent)), KeptOf(Completed(kl.qin, LF)))

\* both adapters forwarded something, were dropped, and a tail was discarded
C17_Witness ==
    /\ kl # <<>>
    /\ ~kl.kalive /\ kl.ksink # <<>> /\ TailDiscarded(kl.kin, KLF)
    /\ ~kl.qalive /\ kl.qsent # <<>> /\ TailDiscarded(kl.qin, LF)

-----------------------------------------------------------------------------
(* Properties of the session ticket file *)

\* C18: a reader of the session file gets a complete ticket, the previous
\* one or the new one: never no bytes and never a part of a ticket.
C18_ReaderSeesCompleteTicket ==
    sess.seen.ok => \E t \in 1..MaxTickets : sess.seen.bytes = Ticket(t)

-----------------------------------------------------------------------------
(* Properties of the HTTP/3 probe application *)

\* The calls a step adds to the connection.
H3Added == SubSeq(h3'.st.calls, Len(h3.st.calls) + 1, Len(h3'.st.calls))
\* The events the application receives in a step.
H3Received == IF h3'.ncb = h3.ncb + 1 THEN h3'.polled ELSE <<>>

IsClosingEvent(ev) == ev.k = "Finished" \/ (ev.k = "Headers" /\ ev.fin)
IsCloseCall(c, code) == c[1] = "close" /\ c[2] = code

\* C29: the application calls close with code 0 once for each Headers event
\* with fin and each Finished event it receives for the request, straight
\* after closing the request stream, and at no other time: a step that
\* receives only Headers without fin, Data, GoAway, Reset or PriorityUpdate
\* events, or that receives nothing, makes no close call with code 0.
C29_CloseZeroExactlyOnFinOrFinished ==
    [][ /\ Len(h3'.st.calls) >= Len(h3.st.calls)
        /\ Len(SelectSeq(H3Added, LAMBDA c : IsCloseCall(c, 0)))
              = Len(SelectSeq(H3Received, IsClosingEvent))
        /\ \A i \in 1..Len(H3Added) :
              IsCloseCall(H3Added[i], 0) =>
                 /\ i > 1
                 /\ h3.st.app.req_stream # <<>>
                 /\ H3Added[i - 1] = <<"stream_close", h3.st.app.req_stream[1]>>
      ]_vars

\* The last callback received a Headers event with fin or a Finished event
\* and the callbacks before it received none: the connection's only close
\* with code 0 is the call that ends the sequence.
C29_Witness ==
    /\ h3.connected /\ h3.fault = "none"
    /\ h3.ncb = MaxH3Calls
    /\ h3.polled # <<>> /\ IsClosingEvent(h3.polled[Len(h3.polled)])
    /\ h3.st.calls[Len(h3.st.calls)] = ConnClose(0, "ok")
    /\ Len(SelectSeq(h3.st.calls, LAMBDA c : IsCloseCall(c, 0))) = 1

H3InitFailed == h3.connected /\ h3.fault # "none"

C30_State ==
    H3InitFailed =>
        /\ h3.st.calls # <<>>
        /\ IsCloseCall(h3.st.calls[Len(h3.st.calls)], 1)
        /\ Len(SelectSeq(h3.st.calls, LAMBDA c : c[1] = "close")) = 1
        /\ ~h3.st.app.h3
        /\ h3.st.app.req_stream = <<>>

C30_Step ==
    (H3InitFailed /\ h3'.ncb = h3.ncb + 1) =>
        /\ h3'.st = h3.st
        /\ h3'.polled = <<>>

\* C30: when the Http3Config, the Http3Connection, stream_new or
\* send_headers fails in on_connected, the application's last call is close
\* with code 1 and it is its only close, it holds no HTTP/3 connection and
\* no request stream, and every later stream-readable callback polls no
\* event, makes no call and changes no field.
C30_FailedInitClosesWithOneAndStaysInert == []C30_State /\ [][C30_Step]_vars

\* send_headers failed and stream-readable callbacks have run since.
C30_Witness ==
    /\ h3.connected /\ h3.fault = "hdr"
    /\ h3.ncb = MaxH3Calls
    /\ h3.st.calls = << <<"stream_new", ReqStream>>, ConnClose(1, "hdr") >>

H3HasClosed(calls) == \E i \in 1..Len(calls) : IsCloseCall(calls[i], 0)

C38_State ==
    /\ Len(SelectSeq(h3.st.calls, LAMBDA c : c[1] = "close")) <= 1
    /\ Len(SelectSeq(h3.st.calls, LAMBDA c : c[1] = "stream_close")) <= 1

C38_Step == H3HasClosed(h3.st.calls) => (H3Received = <<>> /\ H3Added = <<>>)

\* C38: once the application has closed the connection with code 0, on a
\* Headers event with fin or on a Finished event, it takes no further
\* HTTP/3 event of that connection and makes no further call on it: the
\* connection sees at most one stream_close and at most one close.
C38_NothingAfterClose == []C38_State /\ [][C38_Step]_vars

-----------------------------------------------------------------------------
(* Properties of the request *)

ReqSends == SelectSeq(h3.st.calls, LAMBDA c : c[1] = "send_headers")
ReqStreams == SelectSeq(h3.st.calls, LAMBDA c : c[1] = "stream_new")
HasHeader(headers, name, value) ==
    \E i \in 1..Len(headers) : headers[i] = Header_new(name, value)
HeaderCount(headers, name) == Len(SelectSeq(headers, LAMBDA h : h.name = name))

\* C31: once the connect callback has run without a failure, the
\* application has opened exactly one request stream and sent headers on it
\* once, with FIN, and the headers are :method GET, :scheme https,
\* :authority the host, :path the profile's path, user-agent the profile's
\* user_agent and accept */*, each once.
C31_RequestCarriesProfilePathAndUserAgent ==
    (h3.phase = "connected" /\ h3.fault = "none") =>
        /\ Len(ReqStreams) = 1
        /\ Len(ReqSends) = 1
        /\ ReqSends[1][2] = ReqStreams[1][2]
        /\ ReqSends[1][4] = TRUE
        /\ LET headers == ReqSends[1][3]
           IN /\ HasHeader(headers, ":method", <<"GET">>)
              /\ HasHeader(headers, ":scheme", <<"https">>)
              /\ HasHeader(headers, ":authority", h3.host)
              /\ HasHeader(headers, ":path", h3.path)
              /\ HasHeader(headers, "user-agent", h3.user_agent)
              /\ HasHeader(headers, "accept", <<"*/*">>)
              /\ Len(headers) = 6

-----------------------------------------------------------------------------
(* Properties of the shared keylog sink *)

\* the complete lines of a stretch of bytes, in order
RECURSIVE KeylogLines(_)
KeylogLines(bytes) ==
    LET pos == FirstIndex(bytes, KLF)
    IN IF pos = 0 THEN <<>>
       ELSE <<SubSeq(bytes, 1, pos)>> \o KeylogLines(SubSeq(bytes, pos + 1, Len(bytes)))

\* what follows the last LF of a stretch of bytes
KeylogRest(bytes) == SubSeq(bytes, LastIndex(bytes, KLF) + 1, Len(bytes))

KsFs == kl.g.writer.fs
KsInputLines == {KsLine(c, j) : c \in KsConns, j \in 1..2}
IsLineOf(c, line) == \E j \in 1..2 : line = KsLine(c, j)

\* the keylog output in file order: rotated files by suffix, then the base
KsOutput == ConcatFiles(KsFs, Ascending(NumberedNames(KsFs)) \o <<Base>>)

\* what connection c is in the middle of writing to the file
KsPartial(c) ==
    IF kl.conn[c].pc = "write" THEN SubSeq(kl.conn[c].line, 1, kl.conn[c].off) ELSE <<>>

\* C34: every file of the keylog output is a run of whole lines, each a
\* line some connection forwarded, followed only by the part that the
\* holder of the mutex has written of its current line; so no line is cut
\* by a rotation and no two lines' bytes interleave.  The lines of one
\* connection in the output, in file order, are the lines that connection
\* has finished forwarding, in the order it wrote them.
C34_LinesContiguousAndInOrder ==
    /\ \A name \in DOMAIN KsFs.dir :
          /\ \A i \in 1..Len(KeylogLines(FileBytes(KsFs, name))) :
                KeylogLines(FileBytes(KsFs, name))[i] \in KsInputLines
          /\ \/ KeylogRest(FileBytes(KsFs, name)) = <<>>
             \/ /\ KsFs.dir[name] = kl.g.writer.file
                /\ kl.holder # NoHolder
                /\ KeylogRest(FileBytes(KsFs, name)) = KsPartial(kl.holder)
    /\ \A c \in KsConns :
          SelectSeq(KeylogLines(KsOutput), LAMBDA l : IsLineOf(c, l))
             = [j \in 1..kl.conn[c].sent |-> KsLine(c, j)]

\* Both connections have forwarded both their lines, the sink has rotated,
\* and the second connection's first line went out between the two lines
\* of the first.
C34_Witness ==
    /\ \A c \in KsConns : kl.conn[c].sent = 2 /\ kl.conn[c].pc = "idle"
    /\ NumberedNames(KsFs) # {}
    /\ \E i \in 1..2 :
          /\ KeylogLines(KsOutput)[i] = KsLine(1, 1)
          /\ KeylogLines(KsOutput)[i + 1] = KsLine(2, 1)
          /\ KeylogLines(KsOutput)[i + 2] = KsLine(1, 2)

-----------------------------------------------------------------------------
(* Properties of the keylog adapter under flushes *)

\* C37: every line the keylog adapter hands to the sink is a complete line
\* of the connection's input stream (all the bytes between two LFs of the
\* stream, or from its start to the first LF), and the lines handed over are
\* in the stream's order, whatever writes and flushes were made.
C37_ForwardedLinesAreInputLines ==
    IsSubseq(kl.ksink, KeylogLines(Flatten(kl.kin)))

\* what one write of all of `bytes` to a new adapter forwards
KeylogOneWrite(bytes) == PerConnKeylog_write(PerConnKeylog_new, <<>>, bytes, TRUE).sink
SqlogOneWrite(bytes) ==
    PerConnSqlog_write(PerConnSqlog_new(kl.q.gid), QlogMux_new(EmptyFs), bytes).sent

\* C39: while an adapter has not been flushed, what it has forwarded is what
\* one write of the whole byte stream written so far forwards, however the
\* library cut the stream into write calls: the lines handed to append_line
\* (none of which failed) and the frames handed to append_record.
C39_ForwardedDependsOnStreamOnly ==
    /\ (Len(kl.kin) = 1 /\ ~kl.klost) => kl.ksink = KeylogOneWrite(kl.kin[1])
    /\ Len(kl.qin) = 1 => kl.qsent = SqlogOneWrite(kl.qin[1])

\* Both streams were cut inside a unit: the keylog line "AA\n" came as "A"
\* and "A\n", and the second qlog frame came without its LF, which followed
\* in a write of its own.
C39_Witness ==
    /\ kl.kin = << <<65, 65, KLF>> >>
    /\ kl.ksink = << <<65, 65, KLF>> >>
    /\ Len(kl.qin) = 1 /\ Len(kl.qin[1]) = 6
    /\ Len(kl.qsent) = 2

-----------------------------------------------------------------------------
(* Properties of the tracked size *)

\* the last operation of the writer succeeded: the open, or a write (with
\* the rotation it made)
RotLastOk == rlast.ok

\* C40: after every successful open, write and rotation, the size the
\* writer tracks is the length of the file it writes to, the bytes of the
\* new-file hook and the bytes found in an existing file included.
C40_TrackedSizeIsFileLength ==
    RotLastOk => rw.size = Len(rw.fs.data[rw.file])

-----------------------------------------------------------------------------
(* Properties of the shared per-connection state *)

\* C35: no borrow of the shared cell ever panics, in the driver loop or in
\* a callback (try_borrow_mut().unwrap() of the connection-closed handler
\* included), and whenever the driver is about to call the Endpoint, which
\* is where callbacks run, no borrow of the cell is live.
C35_NoBorrowConflict ==
    /\ ~drv.st.panicked
    /\ drv.pc \in EndpointCallPcs =>
          CellFree(IF drv.pc = "read" THEN read_event_test(drv.st) ELSE drv.st)
    /\ drv.pc = "returned" => CellFree(drv.st)

\* open_connection has returned after the connection was established and
\* the connection-closed handler took its mutable borrow inside one of the
\* driver's calls on the Endpoint.
C35_Witness ==
    /\ drv.driver = "open_connection"
    /\ drv.pc = "returned"
    /\ drv.st.hs_ok /\ drv.st.closed /\ drv.st.done /\ drv.st.cb_ran
    /\ drv.iter > 0

-----------------------------------------------------------------------------
(* Properties of the minimiser *)

\* the rules in the order they are listed: the first rule a name matches
\* decides (the last rule matches every name)
MinRules(name) ==
    << [hit  |-> StartsWith(name, <<"meta", ":">>) \/ StartsWith(name, <<"loglevel", ":">>),
        keep |-> TRUE],
       [hit  |-> EndsWith(name, <<":", "parameters_set">>), keep |-> TRUE],
       [hit  |-> \/ Contains(name, <<"error">>) \/ Contains(name, <<"closed">>)
                 \/ StartsWith(name, <<"quic", ":", "path_">>)
                 \/ Contains(name, <<"connection_lost">>),
        keep |-> TRUE],
       [hit  |-> StartsWith(name, <<"recovery", ":">>),
        keep |-> name = <<"recovery", ":", "packet_lost">>],
       [hit  |-> name = <<"quic", ":", "stream_data_moved">>, keep |-> FALSE],
       [hit  |-> TRUE, keep |-> TRUE] >>

FirstRule(name) ==
    CHOOSE i \in 1..6 : MinRules(name)[i].hit /\ \A j \in 1..(i - 1) : ~MinRules(name)[j].hit

\* the event as the adapter forwards it: the group_id of the adapter put in
MinForwarded == Frame(EventJson(adapters.a.gid, 0, adapters.name))

\* C36: once the event frame was written to the adapter, the qlog output is
\* the header of the new-file hook followed by the event when the first rule
\* its name matches, in the listed order, keeps it, and the header alone when
\* that rule drops it.
C36_KeptOrDroppedByNameInRuleOrder ==
    adapters.fed =>
        QlogOutput = HookHeader \o (IF MinRules(adapters.name)[FirstRule(adapters.name)].keep
                                    THEN MinForwarded ELSE <<>>)

\* an event of the recovery namespace, not recovery:packet_lost, whose name
\* contains "error": the third rule is the first it matches, and it is in
\* the output
C36_Witness ==
    /\ adapters.fed
    /\ StartsWith(adapters.name, <<"recovery", ":">>)
    /\ Contains(adapters.name, <<"error">>)
    /\ QlogOutput = HookHeader \o MinForwarded

====
